---- MODULE Spec2Model ----
(***************************************************************************)
(* Ingestion-and-alerting engine of the temperature monitor:               *)
(* MQTTService._on_message -> TemperatureMonitor._on_mqtt_message ->       *)
(* TemperatureMonitor._check_temperature_alerts, with the two outbound     *)
(* queues (Telegram message_queue, dashboard notification_queue).          *)
(*                                                                         *)
(* Temperatures are Python floats; they are modelled in tenths of a        *)
(* degree (155.0 is 1550, the offset 12.6 is 126).  None and float nan are *)
(* values of their own.                                                    *)
(***************************************************************************)
EXTENDS Integers, Sequences, FiniteSets, TLC

\* ---------------------------------------------------------------- bounds
\* Cap on the length of each outbound queue (queue.Queue() is unbounded).
MaxQueue == 1
\* The excursion observer counts the readings of a run up to this many.
MaxRun == 2
\* Number of transport threads delivering concurrently.
NThreads == 2
\* Attempts one run of the reconnect loop is followed for.
MaxAttempts == 8
\* Number of Telegram worker threads start_worker may create in all.
MaxWorkers == 2

\* ------------------------------------------------------- program constants
MIN_TEMP_ALERT == 1200
MAX_TEMP_ALERT == 1550
TEMPERATURE_OFFSET == 126
WINDOW_START == 6
WINDOW_END == 17

\* ------------------------------------------------------------------ values
None == [kind |-> "None", tenths |-> 0]
NaN == [kind |-> "nan", tenths |-> 0]
F(x) == [kind |-> "float", tenths |-> x]
\* JSON values that float() rejects: a non-numeric string (ValueError) and
\* null (TypeError).
JStr == [kind |-> "str", tenths |-> 0]
JNull == [kind |-> "null", tenths |-> 0]
\* A JSON integer beyond the range of a float: float() raises OverflowError.
JBig == [kind |-> "big", tenths |-> 0]

IsFloat(v) == v.kind \in {"float", "nan"}

\* Python float comparison: every comparison with nan is False.
Gt(a, b) == a.kind = "float" /\ a.tenths > b
Lt(a, b) == a.kind = "float" /\ a.tenths < b

\* Variant: the assignment replaces the dict by one holding the new key only.
DictOnly(d, k, v) == [x \in {k} |-> v]

\* dict[key] = value: overwrites an existing key, creates a missing one.
DictSet(d, k, v) == [x \in DOMAIN d \cup {k} |-> IF x = k THEN v ELSE d[x]]

EmptyDict == [x \in {} |-> None]

\* ----------------------------------------------------------- configuration
\* Topic table (environment supplied); the table of the self-test is used.
MQTT_TOPICS ==
    [dryer1 |-> "esp32/dryer1/temp", dryer2 |-> "esp32/dryer2/temp",
     dryer3 |-> "esp32/dryer3/temp", kedi1 |-> "esp32/kedi1/temp",
     kedi2 |-> "esp32/kedi2/temp", kedi3 |-> "esp32/kedi3/temp",
     kedi4 |-> "esp32/kedi4/temp", boiler1 |-> "esp32/boiler1/temp",
     boiler2 |-> "esp32/boiler2/temp", humidity4 |-> "esp32/humidity4"]

NotFound == <<>>

\* topic_mapping.get(topic)
topic_mapping(topic) ==
    CASE topic = MQTT_TOPICS["dryer1"] -> <<"dryer", "dryer1">>
      [] topic = MQTT_TOPICS["dryer2"] -> <<"dryer", "dryer2">>
      [] topic = MQTT_TOPICS["dryer3"] -> <<"dryer", "dryer3">>
      [] topic = MQTT_TOPICS["kedi1"] -> <<"kedi", "kedi1">>
      [] topic = MQTT_TOPICS["kedi2"] -> <<"kedi", "kedi2">>
      [] topic = MQTT_TOPICS["boiler1"] -> <<"boiler", "boiler1">>
      [] topic = MQTT_TOPICS["boiler2"] -> <<"boiler", "boiler2">>
      [] topic = MQTT_TOPICS["humidity4"] -> <<"kedi", "humidity4">>
      [] OTHER -> NotFound

\* Variant: the table also routes the kedi3 channel.
RouteWithKedi3(topic) ==
    IF topic = MQTT_TOPICS["kedi3"]
    THEN <<"kedi", "kedi3">>
    ELSE topic_mapping(topic)

_get_device_info_from_topic(topic) == topic_mapping(topic)

\* MQTTService.__init__: every non-empty topic of the table.
subscribed_topics == {MQTT_TOPICS[d] : d \in {x \in DOMAIN MQTT_TOPICS : MQTT_TOPICS[x] # ""}}

\* ---------------------------------------------------------------- payloads
\* A raw payload: utf8 (does bytes.decode succeed), padded (surrounding
\* whitespace), form of the stripped text:
\*   "number"  text float() accepts, value is the float it yields
\*   "word"    any other text not of the shape {...}
\*   "object"  text of the shape {...}; valid says json.loads succeeds and
\*             data is then the dict it yields
Payload(utf8, padded, form, valid, value, data) ==
    [utf8 |-> utf8, padded |-> padded, form |-> form, valid |-> valid,
     value |-> value, data |-> data]

BadBytes == Payload(FALSE, FALSE, "word", FALSE, None, EmptyDict)
Word == Payload(TRUE, FALSE, "word", FALSE, None, EmptyDict)
Number(v) == Payload(TRUE, FALSE, "number", FALSE, v, EmptyDict)
BadObject == Payload(TRUE, FALSE, "object", FALSE, None, EmptyDict)
Object(d) == Payload(TRUE, FALSE, "object", TRUE, None, d)
Padded(p) == [p EXCEPT !.padded = TRUE]

NumericKeys == {"temperature", "humidity", "pressure", "water_level"}

\* str.strip()
Strip(payload) == [payload EXCEPT !.padded = FALSE]

\* What a parser hands back: None, a float, or a dict.
ParsedNone == [type |-> "None", value |-> None, dict |-> EmptyDict]
ParsedFloat(v) == [type |-> "float", value |-> v, dict |-> EmptyDict]
ParsedDict(d) == [type |-> "dict", value |-> None, dict |-> d]

\* Variant: text that is not a number is read as 0.0.
ParseNumericOrZero(payload) ==
    IF payload.form = "number"
    THEN ParsedFloat(payload.value)
    ELSE ParsedFloat(F(0))

\* float(payload), which tolerates surrounding whitespace; None on ValueError
_parse_numeric_payload(payload) ==
    IF payload.form = "number" THEN ParsedFloat(payload.value) ELSE ParsedNone

\* float() of a recognised key raises something other than ValueError and
\* TypeError.
Overflows(data) == \E k \in DOMAIN data \cap NumericKeys : data[k] = JBig

\* Variant: a recognised key that float() rejects fails the whole payload.
ParseJsonStrict(payload) ==
    IF \/ ~payload.valid
       \/ \E k \in DOMAIN payload.data \cap NumericKeys : ~IsFloat(payload.data[k])
    THEN ParsedNone
    ELSE ParsedDict(payload.data)

\* json.loads, then float() of every recognised key (None when float()
\* raises ValueError or TypeError), other keys kept; None when json.loads
\* raises or anything else is raised
_parse_json_payload(payload) ==
    IF ~payload.valid \/ Overflows(payload.data)
    THEN ParsedNone
    ELSE ParsedDict([k \in DOMAIN payload.data |->
            IF k \in NumericKeys
            THEN (IF IsFloat(payload.data[k]) THEN payload.data[k] ELSE None)
            ELSE payload.data[k]])

\* payload.startswith('{') and payload.endswith('}')
LooksLikeObject(payload) == payload.form = "object" /\ ~payload.padded

_parse_payload(payload) ==
    LET p == Strip(payload) IN
    IF LooksLikeObject(p)
    THEN _parse_json_payload(p)
    ELSE _parse_numeric_payload(p)

\* Variant: the raw value is passed on as it is.
NoOffset(raw_temp) == raw_temp

apply_temperature_offset(raw_temp) ==
    IF raw_temp = None THEN None
    ELSE IF raw_temp.kind = "nan" THEN NaN
    ELSE F(raw_temp.tenths + TEMPERATURE_OFFSET)

\* ------------------------------------------------------------ alert engine
AlertDevices == {"dryer1", "dryer2", "dryer3", "kedi1", "kedi2", "boiler1", "boiler2"}

\* Variant: the ceiling itself already counts as too high (>=).
IsHighInclusive(temperature) ==
    temperature.kind = "float" /\ temperature.tenths >= MAX_TEMP_ALERT

\* temperature > self.config.MAX_TEMP_ALERT
IsHigh(temperature) == Gt(temperature, MAX_TEMP_ALERT)

\* Variant: the comparison of the LOW branch the wrong way round (>).
IsLowInverted(temperature) == Gt(temperature, MIN_TEMP_ALERT)

\* temperature < self.config.MIN_TEMP_ALERT
IsLow(temperature) == Lt(temperature, MIN_TEMP_ALERT)

\* Variant: the closing hour still counts as inside the window.
InOperatingHoursInclusive(h) == WINDOW_START <= h /\ h <= WINDOW_END

\* 6 <= current_hour < 17
InOperatingHours(h) == WINDOW_START <= h /\ h < WINDOW_END

\* Variant: the Telegram text without its time line.
TelegramMessageNoTime(device_id, status, temperature, h) ==
    [type |-> "message", device |-> device_id, status |-> status,
     temperature |-> temperature]

\* ('message', telegram_message): title (device, direction), value, time
TelegramMessage(device_id, status, temperature, h) ==
    [type |-> "message", device |-> device_id, status |-> status,
     temperature |-> temperature, time |-> h]

\* {"title": title, "message": message}: device, direction, value, threshold
NotificationPayload(device_id, status, temperature, threshold) ==
    [device |-> device_id, status |-> status, temperature |-> temperature,
     threshold |-> threshold]

\* The branch taken and, inside it, whether the state differs from the
\* branch's target: only a differing HIGH or LOW branch builds messages.
\* Variant: no comparison with the state the device is already in.
HighAlertAlways(prior, temperature) == IsHigh(temperature)

HighAlert(prior, temperature) == IsHigh(temperature) /\ prior # "HIGH"

LowAlert(prior, temperature) ==
    ~IsHigh(temperature) /\ IsLow(temperature) /\ prior # "LOW"

\* Variant: the branch for a temperature in range does nothing.
BackToNormalNever(prior, temperature) == FALSE

BackToNormal(prior, temperature) ==
    ~IsHigh(temperature) /\ ~IsLow(temperature) /\ prior # "NORMAL"

NewAlertStatus(prior, temperature) ==
    IF HighAlert(prior, temperature) THEN "HIGH"
    ELSE IF LowAlert(prior, temperature) THEN "LOW"
    ELSE IF BackToNormal(prior, temperature) THEN "NORMAL"
    ELSE prior

\* Result of one call: raised (KeyError on alert_status[device_id]), the
\* alert table afterwards, and what was put on the two queues.
CheckResult(raised, status, telegram, notification) ==
    [raised |-> raised, alert_status |-> status, telegram |-> telegram,
     notification |-> notification]

\* The body of the check after its guard against None.
CheckThresholds(device_id, temperature, status, h) ==
    IF device_id \notin DOMAIN status
    THEN CheckResult(TRUE, status, <<>>, <<>>)
    ELSE
      LET prior == status[device_id]
          high == HighAlert(prior, temperature)
          low == LowAlert(prior, temperature)
          direction == IF high THEN "HIGH" ELSE "LOW"
          threshold == IF high THEN MAX_TEMP_ALERT ELSE MIN_TEMP_ALERT
      IN CheckResult(FALSE,
            [status EXCEPT ![device_id] = NewAlertStatus(prior, temperature)],
            IF (high \/ low) /\ InOperatingHours(h)
            THEN <<TelegramMessage(device_id, direction, temperature, h)>>
            ELSE <<>>,
            IF high \/ low
            THEN <<NotificationPayload(device_id, direction, temperature, threshold)>>
            ELSE <<>>)

\* Variant: no guard, an absent temperature is taken for 0.0.
CheckNoneAsZero(device_id, temperature, status, h) ==
    CheckThresholds(device_id, IF temperature = None THEN F(0) ELSE temperature,
                    status, h)

_check_temperature_alerts(device_id, temperature, status, h) ==
    IF temperature = None
    THEN CheckResult(FALSE, status, <<>>, <<>>)
    ELSE CheckThresholds(device_id, temperature, status, h)

\* ------------------------------------------------------------------- state
VARIABLES
    latest_temperatures,   \* system -> device -> latest temperature
    latest_humidity,       \* device -> latest humidity
    latest_pressure,       \* device -> latest pressure
    latest_water_level,    \* device -> latest water level
    alert_status,          \* device -> "NORMAL" | "HIGH" | "LOW"
    data_lock,             \* "free" | "held"
    notification_queue,    \* dashboard notifications, oldest first
    message_queue,         \* Telegram dispatcher queue, oldest first
    hour,                  \* local hour of day
    delivered,             \* number of messages delivered so far, modulo 2
    msg,                   \* the last message delivered
    outcome,               \* how its _on_message call ended
    previous_outcome,      \* how the call before that one ended
    tracked,               \* the device the two observers follow, or NoDevice
    excursion,             \* observer: the current run of readings above MAX
    roundtrip,             \* observer: progress through RoundTripReadings
    thread_pc,             \* transport thread -> where its call stands
    thread_msg,            \* transport thread -> the message it delivers
    thread_status,         \* transport thread -> the status its check decided
    last_acquired,         \* the transport thread that took data_lock last, 0 for none
    saver_pc,              \* where the DataSaveTask thread stands
    snapshot,              \* what get_latest_temperatures returned to it
    snapshot_after,        \* the threads that had returned when it was taken
    save_pos,              \* how many readings of the snapshot it has saved
    save_log,              \* the insert calls of this run of task(), in order
    db_rows,               \* the rows the database holds
    is_worker_running,     \* TelegramService.is_worker_running
    worker_thread,         \* TelegramService.worker_thread, 0 for None
    worker_pc,             \* worker thread -> where _process_queue stands
    worker_item,           \* worker thread -> the item it took and holds
    worker_tries,          \* worker thread -> send attempts on that item
    worker_result,         \* worker thread -> how its last send ended
    joining,               \* the thread stop_worker waits for, 0 for none
    job_pc,                \* scheduled job -> where its run loop stands
    job_running,           \* scheduled job -> BackgroundTask.is_running
    job_raised,            \* scheduled job -> has task() raised so far
    job_stopped,           \* scheduled job -> has stop() been called
    run_pc,                \* where TemperatureMonitor.run stands
    tasks,                 \* TemperatureMonitor.tasks, class names in order
    mqtt_client,           \* MQTTService.client: "none" | "looping" | "stopped"
    is_connected,          \* MQTTService.is_connected
    should_reconnect,      \* MQTTService.should_reconnect
    reconnect_pc,          \* where the reconnect thread stands
    retry_delay,           \* its local retry_delay, 0 while it has none
    failed_attempts,       \* attempts of this run that ended without a connection
    slept,                 \* the delays this run has slept, in order
    subscribed,            \* the topics subscribed on the current client
    connack,               \* the last answer handed to _on_connect (ghost)
    start_pc,              \* the network thread inside _start_reconnect_thread
    disconnect_pc,         \* the main thread inside disconnect()
    is_error_notified,     \* system -> a stuck-value warning is outstanding
    check_pc,              \* the system MonitorDataTask.task checks next
    last_check,            \* the last consistency check made: its system, the
                           \* number of rows and their distinct stored
                           \* values, was a warning sent (ghost)
    warned,                \* system -> a warning has been sent (ghost)
    varied_since,          \* system -> a check since the last warning saw
                           \* rows without a single value (ghost)
    now,                   \* time.time(), in units of eight hours
    session,               \* the Flask session of the browser, a dict
    cookie_issued,         \* when the session cookie was signed, -1: none
    last_request           \* how the last request ended (ghost)

storeVars == <<latest_temperatures, latest_humidity, latest_pressure, latest_water_level>>
queueVars == <<notification_queue, message_queue>>
observerVars == <<tracked, excursion, roundtrip>>
callVars == <<delivered, msg, outcome, previous_outcome>>
threadVars == <<thread_pc, thread_msg, thread_status>>
saverVars == <<saver_pc, snapshot, snapshot_after, save_pos, save_log, db_rows>>
workerVars == <<is_worker_running, worker_thread, worker_pc, worker_item,
                worker_tries, worker_result, joining>>
jobVars == <<job_pc, job_running, job_raised, job_stopped>>
orderVars == <<last_acquired>>
runVars == <<run_pc, tasks>>
reconnectVars == <<mqtt_client, is_connected, should_reconnect, reconnect_pc,
                   retry_delay, failed_attempts, slept, subscribed,
                   connack, start_pc, disconnect_pc>>
checkVars == <<is_error_notified, check_pc, last_check, warned, varied_since>>
sessionVars == <<now, session, cookie_issued, last_request>>
sideVars == <<checkVars, sessionVars>>
backgroundVars == <<workerVars, jobVars, orderVars, runVars, reconnectVars,
                    sideVars>>
concurrentVars == <<threadVars, saverVars, backgroundVars>>
vars == <<storeVars, alert_status, data_lock, queueVars, hour, callVars,
          observerVars, concurrentVars>>

\* ------------------------------------------------------------- coordinator
HasTemperature(parsed) ==
    \/ parsed.type = "dict" /\ "temperature" \in DOMAIN parsed.dict
    \/ parsed.type = "float"

\* The temperature written to the store and handed to the alert check.
ReadingOf(parsed) ==
    IF parsed.type = "dict"
    THEN parsed.dict["temperature"]
    ELSE apply_temperature_offset(parsed.value)

TemperaturesAfter(parsed, system_type, device_id) ==
    IF HasTemperature(parsed)
    THEN [latest_temperatures EXCEPT
            ![system_type] = DictSet(@, device_id, ReadingOf(parsed))]
    ELSE latest_temperatures

HumidityAfter(parsed, system_type, device_id) ==
    IF parsed.type = "dict" /\ "humidity" \in DOMAIN parsed.dict
       /\ device_id = "humidity4"
    THEN DictSet(latest_humidity, device_id, parsed.dict["humidity"])
    ELSE latest_humidity

PressureAfter(parsed, system_type, device_id) ==
    IF parsed.type = "dict" /\ "pressure" \in DOMAIN parsed.dict
       /\ system_type = "kedi"
    THEN DictSet(latest_pressure, device_id, parsed.dict["pressure"])
    ELSE latest_pressure

WaterLevelAfter(parsed, system_type, device_id) ==
    IF parsed.type = "dict" /\ "water_level" \in DOMAIN parsed.dict
       /\ system_type = "boiler"
    THEN DictSet(latest_water_level, device_id, parsed.dict["water_level"])
    ELSE latest_water_level

\* Result of the coordinator callback: did it find a route, did it raise,
\* the tables afterwards and the items put on the queues.
_on_mqtt_message(parsed, topic) ==
    LET device_info == _get_device_info_from_topic(topic) IN
    IF device_info = NotFound
    THEN [routed |-> FALSE, raised |-> FALSE,
          temperatures |-> latest_temperatures, humidity |-> latest_humidity,
          pressure |-> latest_pressure, water_level |-> latest_water_level,
          alert_status |-> alert_status, telegram |-> <<>>,
          notification |-> <<>>]
    ELSE
      LET system_type == device_info[1]
          device_id == device_info[2]
          check == IF HasTemperature(parsed)
                   THEN _check_temperature_alerts(device_id, ReadingOf(parsed),
                                                  alert_status, hour)
                   ELSE CheckResult(FALSE, alert_status, <<>>, <<>>)
      IN [routed |-> TRUE, raised |-> check.raised,
          temperatures |-> TemperaturesAfter(parsed, system_type, device_id),
          humidity |-> HumidityAfter(parsed, system_type, device_id),
          pressure |-> PressureAfter(parsed, system_type, device_id),
          water_level |-> WaterLevelAfter(parsed, system_type, device_id),
          alert_status |-> check.alert_status, telegram |-> check.telegram,
          notification |-> check.notification]

\* Variant: the lock is taken and not given back.
LockStillHeld(lock) == "held"

\* with self.data_lock: the lock is released on every way out of the block.
LockAfterWith(lock) == "free"

\* --------------------------------------------------------------- observers
\* Both observers follow the evaluations (calls of _check_temperature_alerts
\* with a temperature other than None) of the device `tracked`.

\* The run of consecutive readings above MAX_TEMP_ALERT that began in NORMAL:
\* its length (counted up to MaxRun), whether all its readings were the same
\* value, the transitions into HIGH and the items put on notification_queue
\* (notes) and message_queue (sent) during it.
ExcursionIdle ==
    [readings |-> 0, same |-> TRUE, highs |-> 0, notes |-> 0, sent |-> 0]

ExcursionAfter(e, t, last, before, after, n, s) ==
    IF t.kind # "float" \/ t.tenths <= MAX_TEMP_ALERT
       \/ (e.readings = 0 /\ before # "NORMAL")
    THEN ExcursionIdle
    ELSE [readings |-> IF e.readings < MaxRun THEN e.readings + 1 ELSE MaxRun,
          same |-> e.readings = 0 \/ (e.same /\ t = last),
          highs |-> e.highs + (IF before # "HIGH" /\ after = "HIGH" THEN 1 ELSE 0),
          notes |-> e.notes + n,
          sent |-> e.sent + s]

\* Progress through the readings 130.0, 160.0, 130.0 begun in NORMAL: how many
\* of them have been evaluated in a row, the alert state after each, and the
\* items put on the two queues meanwhile.
RoundTripReadings == <<F(1300), F(1600), F(1300)>>

RoundTripIdle == [stage |-> 0, states |-> <<>>, notes |-> 0, sent |-> 0]

RoundTripAfter(r, t, before, after, n, s) ==
    IF r.stage \in 1..2 /\ t = RoundTripReadings[r.stage + 1]
    THEN [stage |-> r.stage + 1, states |-> Append(r.states, after),
          notes |-> r.notes + n, sent |-> r.sent + s]
    ELSE IF t = RoundTripReadings[1] /\ before = "NORMAL"
    THEN [stage |-> 1, states |-> <<after>>, notes |-> n, sent |-> s]
    ELSE RoundTripIdle

\* ------------------------------------------------------------------ inputs
Hours == {6, 17}

NoDevice == "nobody"

TrackedDevices == {"dryer1", "kedi1"}

UnknownTopic == "esp32/unknown"

Message(topic, payload) == [topic |-> topic, payload |-> payload]

NoMessage == Message("", Word)

\* Messages of the ingestion specification: every kind of payload and route.
Dryer1Payloads ==
    {Object([temperature |-> F(1300)]), Object([temperature |-> F(1600)]),
     Object([temperature |-> JStr]), Padded(Object([temperature |-> F(1100)])),
     Number(F(1600)), Padded(Number(F(1100))), Word, BadBytes, BadObject}

Kedi1Payloads == {Object([temperature |-> F(1600), pressure |-> F(25)])}

Humidity4Payloads ==
    {Object([humidity |-> F(600)]), Object([temperature |-> F(1600)]),
     Object([temperature |-> JNull])}

UnroutedPayloads == {Number(F(1600)), BadBytes}

Messages ==
    {Message(MQTT_TOPICS["dryer1"], p) : p \in Dryer1Payloads} \cup
    {Message(MQTT_TOPICS["kedi1"], p) : p \in Kedi1Payloads} \cup
    {Message(MQTT_TOPICS["humidity4"], p) : p \in Humidity4Payloads} \cup
    {Message(MQTT_TOPICS["kedi3"], Object([temperature |-> F(1600)]))} \cup
    {Message(UnknownTopic, p) : p \in UnroutedPayloads}

\* Messages of the alert specification: temperature readings around both
\* thresholds for the tracked devices, structured and bare.
ReadingPayloads ==
    {Object([temperature |-> F(t)]) : t \in {1100, 1200, 1300, 1550, 1600}} \cup
    {Object([temperature |-> JNull]), Number(F(1600)), Number(F(1424)),
     Number(NaN)}

ReadingMessages ==
    {Message(MQTT_TOPICS[d], p) : d \in TrackedDevices, p \in ReadingPayloads}

\* -------------------------------------------------------------------- Init
Threads == 1..NThreads

\* No transport thread has a call in progress.
InitThreads ==
    /\ thread_pc = [t \in Threads |-> "idle"]
    /\ thread_msg = [t \in Threads |-> NoMessage]
    /\ thread_status = [t \in Threads |-> "none"]
    /\ last_acquired = 0

NoSnapshot == <<>>

Workers == 1..MaxWorkers

NoItem == [type |-> "none"]

\* TelegramService.__init__: no worker thread yet.
InitWorker ==
    /\ is_worker_running = FALSE
    /\ worker_thread = 0
    /\ worker_pc = [w \in Workers |-> "unborn"]
    /\ worker_item = [w \in Workers |-> NoItem]
    /\ worker_tries = [w \in Workers |-> 0]
    /\ worker_result = [w \in Workers |-> "none"]
    /\ joining = 0

\* The two run loops: BackgroundTask.run with a positive interval and the
\* override DailyExcelReportTask.run.
Jobs == {"interval", "daily"}

\* BackgroundTask.__init__: no thread yet, is_running False.
InitJobs ==
    /\ job_pc = [j \in Jobs |-> "new"]
    /\ job_running = [j \in Jobs |-> FALSE]
    /\ job_raised = [j \in Jobs |-> FALSE]
    /\ job_stopped = [j \in Jobs |-> FALSE]

\* TemperatureMonitor.__init__: no task built, run() not yet in its try.
InitRun ==
    /\ run_pc = "connect"
    /\ tasks = <<>>

\* MQTTService.__init__: no client, no reconnect thread.
InitMqtt ==
    /\ mqtt_client = "none"
    /\ is_connected = FALSE
    /\ should_reconnect = TRUE
    /\ reconnect_pc = "none"
    /\ retry_delay = 0
    /\ failed_attempts = 0
    /\ slept = <<>>
    /\ subscribed = {}
    /\ connack = [rc |-> -1, flip |-> FALSE]
    /\ start_pc = "idle"
    /\ disconnect_pc = "none"

\* MonitorDataTask.__init__: no warning outstanding.
InitChecks ==
    /\ is_error_notified = [s \in {"dryer", "kedi", "boiler"} |-> FALSE]
    /\ check_pc = 1
    /\ last_check = [system |-> "none", rows |-> 0, stored |-> {}, sent |-> FALSE,
                     flip |-> FALSE]
    /\ warned = [s \in {"dryer", "kedi", "boiler"} |-> FALSE]
    /\ varied_since = [s \in {"dryer", "kedi", "boiler"} |-> FALSE]

\* A browser that has not logged in: an empty session, no cookie.
InitWeb ==
    /\ now = 0
    /\ session = <<>>
    /\ cookie_issued = -1
    /\ last_request = [route |-> "none", ended |-> "none", flip |-> FALSE]

\* DataSaveTask is between two runs of task().
InitSaver ==
    /\ saver_pc = "idle"
    /\ snapshot = NoSnapshot
    /\ snapshot_after = {}
    /\ save_pos = 0
    /\ save_log = <<>>
    /\ db_rows = {}

\* The tables, queues and bookkeeping after TemperatureMonitor.__init__.
InitTables ==
    /\ latest_temperatures =
         [dryer |-> [dryer1 |-> None, dryer2 |-> None, dryer3 |-> None],
          kedi |-> [kedi1 |-> None, kedi2 |-> None],
          boiler |-> [boiler1 |-> None, boiler2 |-> None]]
    /\ latest_humidity = [humidity4 |-> None]
    /\ latest_pressure = [kedi1 |-> None, kedi2 |-> None]
    /\ latest_water_level = [boiler1 |-> None, boiler2 |-> None]
    /\ alert_status = [d \in AlertDevices |-> "NORMAL"]
    /\ data_lock = "free"
    /\ notification_queue = <<>>
    /\ message_queue = <<>>
    /\ delivered = 0
    /\ msg = NoMessage
    /\ outcome = "none"
    /\ previous_outcome = "none"
    /\ excursion = ExcursionIdle
    /\ roundtrip = RoundTripIdle
    /\ InitThreads
    /\ InitSaver
    /\ InitWorker
    /\ InitJobs
    /\ InitRun
    /\ InitMqtt
    /\ InitChecks
    /\ InitWeb

InitMonitor == InitTables /\ hour \in Hours

Init == InitMonitor /\ tracked = NoDevice

InitAlert == InitMonitor /\ tracked \in TrackedDevices

\* ----------------------------------------------------------------- actions
\* How MQTTService._on_message ends for a payload and a callback result.
\*   "escaped"       bytes.decode raised and the handler's own log line then
\*                   raised on the unbound raw_payload
\*   "decode_error"  _parse_payload returned None
\*   "not_found"     the callback returned at the route lookup
\*   "caught"        the callback raised, the handler logged it
\*   "processed"     the callback ran to its end
OutcomeOf(payload, parsed, r) ==
    IF ~payload.utf8 THEN "escaped"
    ELSE IF parsed.type = "None" THEN "decode_error"
    ELSE IF ~r.routed THEN "not_found"
    ELSE IF r.raised THEN "caught"
    ELSE "processed"

\* The outcomes in which message_callback was invoked.
CallbackOutcomes == {"not_found", "caught", "processed"}

\* MQTTService._on_message for the message m, with everything it calls.
_on_message(m) ==
    /\ msg' = m
    /\ delivered' = 1 - delivered
    /\ \E parsed \in {_parse_payload(m.payload)} :
       \E r \in {_on_mqtt_message(parsed, m.topic)} :
       \E result \in {OutcomeOf(m.payload, parsed, r)} :
         LET called == result \in CallbackOutcomes
             info == _get_device_info_from_topic(m.topic)
             evaluated == /\ result = "processed"
                          /\ HasTemperature(parsed)
                          /\ ReadingOf(parsed) # None
                          /\ info[2] = tracked
         IN /\ outcome' = result
            /\ previous_outcome' = outcome
            /\ IF called /\ r.routed
               THEN /\ data_lock = "free"
                    /\ data_lock' = LockAfterWith(data_lock)
               ELSE UNCHANGED data_lock
            /\ IF called
               THEN /\ latest_temperatures' = r.temperatures
                    /\ latest_humidity' = r.humidity
                    /\ latest_pressure' = r.pressure
                    /\ latest_water_level' = r.water_level
                    /\ alert_status' = r.alert_status
                    /\ message_queue' = message_queue \o r.telegram
                    /\ notification_queue' = notification_queue \o r.notification
               ELSE UNCHANGED <<storeVars, alert_status, queueVars>>
            /\ IF evaluated
               THEN /\ excursion' =
                         ExcursionAfter(excursion, ReadingOf(parsed),
                            latest_temperatures[info[1]][tracked],
                            alert_status[tracked], r.alert_status[tracked],
                            Len(r.notification), Len(r.telegram))
                    /\ roundtrip' =
                         RoundTripAfter(roundtrip, ReadingOf(parsed),
                            alert_status[tracked], r.alert_status[tracked],
                            Len(r.notification), Len(r.telegram))
               ELSE UNCHANGED <<excursion, roundtrip>>
    /\ UNCHANGED <<hour, tracked, concurrentVars>>

\* The transport client delivers a message while the queues have room.
QueuesHaveRoom ==
    Len(notification_queue) < MaxQueue /\ Len(message_queue) < MaxQueue

OnMessage == QueuesHaveRoom /\ \E m \in Messages : _on_message(m)

OnReading == QueuesHaveRoom /\ \E m \in ReadingMessages : _on_message(m)

\* TelegramService._process_queue takes the oldest item and sends it.
ProcessQueue ==
    /\ message_queue # <<>>
    /\ message_queue' = Tail(message_queue)
    /\ UNCHANGED <<storeVars, alert_status, data_lock, notification_queue,
                   hour, callVars, observerVars, concurrentVars>>

\* WebRoutes.stream_notifications takes the oldest dashboard notification.
StreamNotifications ==
    /\ notification_queue # <<>>
    /\ notification_queue' = Tail(notification_queue)
    /\ UNCHANGED <<storeVars, alert_status, data_lock, message_queue,
                   hour, callVars, observerVars, concurrentVars>>

\* The local clock moves on to another hour.
Tick ==
    /\ \E h \in Hours \ {hour} : hour' = h
    /\ UNCHANGED <<storeVars, alert_status, data_lock, queueVars, callVars,
                   observerVars, concurrentVars>>

\* Ingestion: every kind of message, observers off.
Next == OnMessage \/ ProcessQueue \/ StreamNotifications \/ Tick

Spec == Init /\ [][Next]_vars

\* Alerting: temperature readings for the tracked device, observers on.
NextAlert == OnReading \/ ProcessQueue \/ StreamNotifications \/ Tick

SpecAlert == InitAlert /\ [][NextAlert]_vars

\* ------------------------------------------------------ concurrent callers
\* The same handler, statement by statement, run by several transport
\* threads at once next to the DataSaveTask thread.  A thread stands at:
\*   "idle"      no call yet
\*   "acquire"   before `with self.data_lock`
\*   "update"    inside the with-block, before its assignments
\*   "release"   inside the with-block, after its assignments
\*   "check"     in _check_temperature_alerts, before reading alert_status
\*   "write"     before the assignment to alert_status[device_id]
\*   "telegram"  before telegram_service.send_message
\*   "notify"    before notification_queue.put
\*   "done"      the call has returned
\* The assignments of the with-block are one step: every reader of the
\* tables modelled here takes the same lock.
ConcurrentMessages ==
    {Message(MQTT_TOPICS["dryer1"], Object([temperature |-> F(1600)])),
     Message(MQTT_TOPICS["dryer2"], Object([temperature |-> F(1100)])),
     Message(MQTT_TOPICS["kedi1"],
             Object([temperature |-> F(1600), pressure |-> F(25)]))}

ThreadParsed(t) == _parse_payload(thread_msg[t].payload)
ThreadRoute(t) == _get_device_info_from_topic(thread_msg[t].topic)
ThreadDevice(t) == ThreadRoute(t)[2]
ThreadReading(t) == ReadingOf(ThreadParsed(t))

\* Variant: a queue of capacity MaxQueue, put waits while it is full.
PutWaitsForRoom(q) == Len(q) < MaxQueue

\* queue.Queue() has no maxsize: put never waits.
PutReady(q) == TRUE

\* The branch of the check that would act, "none" if no branch would.
BranchTaken(prior, temperature) ==
    IF HighAlert(prior, temperature) THEN "HIGH"
    ELSE IF LowAlert(prior, temperature) THEN "LOW"
    ELSE IF BackToNormal(prior, temperature) THEN "NORMAL"
    ELSE "none"

\* Thread t is handed the message m: decode, parse and route lookup touch
\* nothing shared.  Threads are numbered in the order their calls begin.
Start(t, m) ==
    /\ thread_pc[t] = "idle"
    /\ \A u \in Threads : u < t => thread_pc[u] # "idle"
    /\ thread_msg' = [thread_msg EXCEPT ![t] = m]
    /\ LET parsed == _parse_payload(m.payload)
           handled == /\ m.payload.utf8
                      /\ parsed # ParsedNone
                      /\ _get_device_info_from_topic(m.topic) # NotFound
       IN thread_pc' = [thread_pc EXCEPT
                           ![t] = IF handled THEN "acquire" ELSE "done"]
    /\ UNCHANGED <<backgroundVars, storeVars, alert_status, data_lock, queueVars, hour,
                   callVars, observerVars, thread_status, saverVars>>

\* Variant: entering the with block does not wait for the lock.
EnterWithoutWaiting(lock) == TRUE

\* `with self.data_lock` enters once the lock is free.
CanEnterWith(lock) == lock = "free"

\* Thread t enters `with self.data_lock`.
EnterWith(t) ==
    /\ thread_pc[t] = "acquire"
    /\ CanEnterWith(data_lock)
    /\ data_lock' = "held"
    /\ thread_pc' = [thread_pc EXCEPT ![t] = "update"]
    /\ UNCHANGED <<workerVars, jobVars, runVars, reconnectVars, sideVars,
                   storeVars, alert_status, queueVars, hour, callVars,
                   observerVars, thread_msg, thread_status, saverVars>>

Acquire(t) == EnterWith(t) /\ UNCHANGED last_acquired

\* The same step, with the order of entry kept.
AcquireInOrder(t) == EnterWith(t) /\ last_acquired' = t

Update(t) ==
    /\ thread_pc[t] = "update"
    /\ LET parsed == ThreadParsed(t)
           system_type == ThreadRoute(t)[1]
           device_id == ThreadRoute(t)[2]
       IN /\ latest_temperatures' = TemperaturesAfter(parsed, system_type, device_id)
          /\ latest_humidity' = HumidityAfter(parsed, system_type, device_id)
          /\ latest_pressure' = PressureAfter(parsed, system_type, device_id)
          /\ latest_water_level' = WaterLevelAfter(parsed, system_type, device_id)
    /\ thread_pc' = [thread_pc EXCEPT ![t] = "release"]
    /\ UNCHANGED <<backgroundVars, alert_status, data_lock, queueVars, hour, callVars,
                   observerVars, thread_msg, thread_status, saverVars>>

Release(t) ==
    /\ thread_pc[t] = "release"
    /\ data_lock' = LockAfterWith(data_lock)
    /\ thread_pc' = [thread_pc EXCEPT
          ![t] = IF HasTemperature(ThreadParsed(t)) /\ ThreadReading(t) # None
                 THEN "check" ELSE "done"]
    /\ UNCHANGED <<backgroundVars, storeVars, alert_status, queueVars, hour, callVars,
                   observerVars, thread_msg, thread_status, saverVars>>

\* The comparisons of the if/elif chain, alert_status[device_id] read.
Check(t) ==
    /\ thread_pc[t] = "check"
    /\ IF ThreadDevice(t) \notin DOMAIN alert_status
       THEN /\ thread_pc' = [thread_pc EXCEPT ![t] = "done"]
            /\ UNCHANGED thread_status
       ELSE LET branch == BranchTaken(alert_status[ThreadDevice(t)],
                                      ThreadReading(t))
            IN /\ thread_status' = [thread_status EXCEPT ![t] = branch]
               /\ thread_pc' = [thread_pc EXCEPT
                     ![t] = IF branch = "none" THEN "done" ELSE "write"]
    /\ UNCHANGED <<backgroundVars, storeVars, alert_status, data_lock, queueVars, hour,
                   callVars, observerVars, thread_msg, saverVars>>

Write(t) ==
    /\ thread_pc[t] = "write"
    /\ alert_status' = [alert_status EXCEPT ![ThreadDevice(t)] = thread_status[t]]
    /\ thread_pc' = [thread_pc EXCEPT
          ![t] = IF thread_status[t] = "NORMAL" THEN "done" ELSE "telegram"]
    /\ UNCHANGED <<backgroundVars, storeVars, data_lock, queueVars, hour, callVars,
                   observerVars, thread_msg, thread_status, saverVars>>

Telegram(t) ==
    /\ thread_pc[t] = "telegram"
    /\ IF InOperatingHours(hour)
       THEN /\ PutReady(message_queue)
            /\ message_queue' =
                 Append(message_queue,
                        TelegramMessage(ThreadDevice(t), thread_status[t],
                                        ThreadReading(t), hour))
       ELSE UNCHANGED message_queue
    /\ thread_pc' = [thread_pc EXCEPT ![t] = "notify"]
    /\ UNCHANGED <<backgroundVars, storeVars, alert_status, data_lock, notification_queue,
                   hour, callVars, observerVars, thread_msg, thread_status,
                   saverVars>>

Notify(t) ==
    /\ thread_pc[t] = "notify"
    /\ PutReady(notification_queue)
    /\ notification_queue' =
         Append(notification_queue,
                NotificationPayload(ThreadDevice(t), thread_status[t],
                    ThreadReading(t),
                    IF thread_status[t] = "HIGH"
                    THEN MAX_TEMP_ALERT ELSE MIN_TEMP_ALERT))
    /\ thread_pc' = [thread_pc EXCEPT ![t] = "done"]
    /\ UNCHANGED <<backgroundVars, storeVars, alert_status, data_lock, message_queue, hour,
                   callVars, observerVars, thread_msg, thread_status,
                   saverVars>>

\* Variant: the dict itself is handed out.
dict_alias(d) == [aliased |-> TRUE, value |-> d]

\* dict.copy()
dict_copy(d) == [aliased |-> FALSE, value |-> d]

\* The dict built by get_latest_temperatures.
get_latest_temperatures ==
    [dryer |-> dict_copy(latest_temperatures["dryer"]),
     kedi |-> dict_copy(latest_temperatures["kedi"]),
     boiler |-> dict_copy(latest_temperatures["boiler"]),
     humidity |-> dict_copy(latest_humidity),
     pressure |-> dict_copy(latest_pressure),
     water_level |-> dict_copy(latest_water_level)]

\* The live table an entry of the snapshot was taken from.
LiveTable(name) ==
    CASE name = "humidity" -> latest_humidity
      [] name = "pressure" -> latest_pressure
      [] name = "water_level" -> latest_water_level
      [] OTHER -> latest_temperatures[name]

\* What its holder reads in the entry `name` of the snapshot.
SnapshotEntry(name) ==
    IF snapshot[name].aliased THEN LiveTable(name) ELSE snapshot[name].value

\* The (system, device) pairs DataSaveTask.task calls insert_temperature for.
ReadingsToSave ==
    {<<sys, d>> \in {"dryer", "kedi", "boiler"} \X DOMAIN MQTT_TOPICS :
        /\ d \in DOMAIN SnapshotEntry(sys)
        /\ SnapshotEntry(sys)[d] # None}

\* get_latest_temperatures: with self.data_lock
SnapAcquire ==
    /\ saver_pc = "idle"
    /\ data_lock = "free"
    /\ data_lock' = "held"
    /\ saver_pc' = "copy"
    /\ UNCHANGED <<backgroundVars, storeVars, alert_status, queueVars, hour, callVars,
                   observerVars, threadVars, snapshot, snapshot_after,
                   save_pos, save_log, db_rows>>

SnapCopy ==
    /\ saver_pc = "copy"
    /\ snapshot' = get_latest_temperatures
    /\ snapshot_after' = {t \in Threads : thread_pc[t] = "done"}
    /\ saver_pc' = "release"
    /\ UNCHANGED <<backgroundVars, storeVars, alert_status, data_lock, queueVars, hour,
                   callVars, observerVars, threadVars, save_pos, save_log,
                   db_rows>>

SnapRelease ==
    /\ saver_pc = "release"
    /\ data_lock' = LockAfterWith(data_lock)
    /\ saver_pc' = "save"
    /\ UNCHANGED <<backgroundVars, storeVars, alert_status, queueVars, hour, callVars,
                   observerVars, threadVars, snapshot, snapshot_after,
                   save_pos, save_log, db_rows>>

\* The order in which task() walks the snapshot: the three tables in turn,
\* each in the insertion order of its dict (humidity4 is added to the kedi
\* table by its first temperature message, after kedi1 and kedi2).
SaveOrder ==
    <<<<"dryer", "dryer1">>, <<"dryer", "dryer2">>, <<"dryer", "dryer3">>,
      <<"kedi", "kedi1">>, <<"kedi", "kedi2">>, <<"kedi", "humidity4">>,
      <<"boiler", "boiler1">>, <<"boiler", "boiler2">>>>

IsReadingToSave(entry) == entry \in ReadingsToSave

\* The readings of the snapshot that are not None, in that order.
ReadingsInOrder == SelectSeq(SaveOrder, IsReadingToSave)

\* Variant: a failed insert is made again.
RetryOnFailure(success, pos) == IF success THEN pos + 1 ELSE pos

\* The loop goes on to the next device whatever insert_temperature returned.
AfterInsert(success, pos) == pos + 1

\* One db_manager.insert_temperature call; it returns True, or False when
\* the INSERT raised, and task() only logs which.
InsertCall(success) ==
    /\ saver_pc = "save"
    /\ save_pos < Cardinality(ReadingsToSave)
    /\ save_pos' = AfterInsert(success, save_pos)
    /\ UNCHANGED <<backgroundVars, storeVars, alert_status, data_lock, queueVars, hour,
                   callVars, observerVars, threadVars, saver_pc, snapshot,
                   snapshot_after>>

\* The call with the database left out of the picture.
Insert ==
    /\ \E success \in BOOLEAN : InsertCall(success)
    /\ UNCHANGED <<save_log, db_rows>>

\* The call with its row: (system, device, value) is in the table afterwards
\* when the INSERT went through.
InsertRow(success) ==
    /\ InsertCall(success)
    /\ LET entry == ReadingsInOrder[save_pos + 1]
           value == SnapshotEntry(entry[1])[entry[2]]
       IN /\ save_log' = Append(save_log,
                 [system |-> entry[1], device |-> entry[2],
                  success |-> success])
          /\ db_rows' = IF success
                        THEN db_rows \cup {<<entry[1], entry[2], value>>}
                        ELSE db_rows

\* task() returns; the snapshot is dropped with its frame.
SaveDone ==
    /\ saver_pc = "save"
    /\ save_pos = Cardinality(ReadingsToSave)
    /\ saver_pc' = "idle"
    /\ snapshot' = NoSnapshot
    /\ snapshot_after' = {}
    /\ save_pos' = 0
    /\ save_log' = <<>>
    /\ UNCHANGED <<backgroundVars, storeVars, alert_status, data_lock, queueVars, hour,
                   callVars, observerVars, threadVars, db_rows>>

ThreadStep(t) ==
    \/ Update(t) \/ Release(t) \/ Check(t) \/ Write(t) \/ Telegram(t)
    \/ Notify(t)

NextThreads ==
    \/ \E t \in Threads : \E m \in ConcurrentMessages : Start(t, m)
    \/ \E t \in Threads : Acquire(t)
    \/ \E t \in Threads : Update(t)
    \/ \E t \in Threads : Release(t)
    \/ \E t \in Threads : Check(t)
    \/ \E t \in Threads : Write(t)
    \/ \E t \in Threads : Telegram(t)
    \/ \E t \in Threads : Notify(t)
    \/ SnapAcquire \/ SnapCopy \/ SnapRelease \/ Insert \/ SaveDone

InitThreaded == InitMonitor /\ tracked = NoDevice /\ hour = WINDOW_START

\* Concurrent deliveries next to the persistence job.  A thread that can
\* take a step takes it; the lock is free between two runs of the job for
\* its whole sleep, so a thread waiting for it gets it.
SpecThreads ==
    /\ InitThreaded
    /\ [][NextThreads]_vars
    /\ \A t \in Threads :
         /\ WF_vars(\E m \in ConcurrentMessages : Start(t, m))
         /\ SF_vars(Acquire(t))
         /\ WF_vars(ThreadStep(t))
    /\ WF_vars(SnapCopy \/ SnapRelease)

\* Concurrent deliveries next to the two queue consumers.  The consumers
\* are under no fairness: the Telegram worker may be stalled in a send or
\* never started, the dashboard may have no client connected.
NextDrain ==
    \/ \E t \in Threads : \E m \in ConcurrentMessages : Start(t, m)
    \/ \E t \in Threads : Acquire(t)
    \/ \E t \in Threads : Update(t)
    \/ \E t \in Threads : Release(t)
    \/ \E t \in Threads : Check(t)
    \/ \E t \in Threads : Write(t)
    \/ \E t \in Threads : Telegram(t)
    \/ \E t \in Threads : Notify(t)
    \/ ProcessQueue \/ StreamNotifications

SpecDrain ==
    /\ InitThreaded
    /\ [][NextDrain]_vars
    /\ \A t \in Threads : WF_vars(Acquire(t) \/ ThreadStep(t))

\* ------------------------------------------------------ operating window
\* Readings of one device delivered at hours on both sides of each end of
\* the operating window.
GateHours == {WINDOW_START - 1, WINDOW_START, WINDOW_END - 1, WINDOW_END}

GateMessages ==
    {Message(MQTT_TOPICS["dryer1"], Object([temperature |-> t])) :
        t \in {F(1100), F(1300), F(1600)}}

OnGateReading == QueuesHaveRoom /\ \E m \in GateMessages : _on_message(m)

TickGate ==
    /\ \E h \in GateHours \ {hour} : hour' = h
    /\ UNCHANGED <<storeVars, alert_status, data_lock, queueVars, callVars,
                   observerVars, concurrentVars>>

InitGate == InitTables /\ hour \in GateHours /\ tracked = NoDevice

NextGate == OnGateReading \/ ProcessQueue \/ StreamNotifications \/ TickGate

SpecGate == InitGate /\ [][NextGate]_vars

\* --------------------------------------------------------- Telegram worker
\* TelegramService: start_worker / stop_worker on the caller's side and the
\* loop of _process_queue in each worker thread.  A worker stands at:
\*   "unborn"   not created
\*   "loop"     at `while self.is_worker_running`
\*   "get"      in message_queue.get(timeout=1)
\*   "sending"  in loop.run_until_complete(...), the network send
\*   "exited"   _process_queue has returned
monitorVars ==
    <<storeVars, alert_status, data_lock, notification_queue, hour, callVars,
      observerVars, threadVars, saverVars, orderVars, reconnectVars, sideVars>>
serviceVars == <<monitorVars, runVars>>

MessageItem == TelegramMessage("dryer1", "HIGH", F(1600), WINDOW_START)

DocumentItem == [type |-> "document", file |-> "report", caption |-> "caption"]

Unborn == {w \in Workers : worker_pc[w] = "unborn"}

\* The next thread start_worker creates.
NewWorker == CHOOSE w \in Unborn : \A v \in Unborn : w <= v

\* start_worker; a call while is_worker_running is set does nothing.
StartWorkerCall ==
    /\ joining = 0
    /\ IF ~is_worker_running
       THEN /\ Unborn # {}
            /\ is_worker_running' = TRUE
            /\ worker_thread' = NewWorker
            /\ worker_pc' = [worker_pc EXCEPT ![NewWorker] = "loop"]
       ELSE UNCHANGED <<is_worker_running, worker_thread, worker_pc>>
    /\ UNCHANGED <<monitorVars, message_queue, worker_item, worker_tries,
                   worker_result, joining, jobVars>>

StartWorker == StartWorkerCall /\ UNCHANGED runVars

\* stop_worker up to its join.
StopWorkerCall ==
    /\ joining = 0
    /\ is_worker_running' = FALSE
    /\ joining' = worker_thread
    /\ UNCHANGED <<monitorVars, message_queue, worker_thread, worker_pc,
                   worker_item, worker_tries, worker_result, jobVars>>

StopWorker == StopWorkerCall /\ UNCHANGED runVars

\* join(timeout=5) returns because the thread has ended.
JoinReturns ==
    /\ joining # 0
    /\ worker_pc[joining] = "exited"
    /\ joining' = 0
    /\ UNCHANGED <<serviceVars, message_queue, is_worker_running,
                   worker_thread, worker_pc, worker_item, worker_tries,
                   worker_result, jobVars>>

\* join(timeout=5) returns on its timeout: the thread is still in a network
\* send (get returns within its one second).
JoinTimeout ==
    /\ joining # 0
    /\ worker_pc[joining] = "sending"
    /\ joining' = 0
    /\ UNCHANGED <<serviceVars, message_queue, is_worker_running,
                   worker_thread, worker_pc, worker_item, worker_tries,
                   worker_result, jobVars>>

WorkerLoop(w) ==
    /\ worker_pc[w] = "loop"
    /\ worker_pc' = [worker_pc EXCEPT
          ![w] = IF is_worker_running THEN "get" ELSE "exited"]
    /\ UNCHANGED <<serviceVars, message_queue, is_worker_running,
                   worker_thread, worker_item, worker_tries, worker_result,
                   joining, jobVars>>

\* get(timeout=1): the oldest item, or Empty and back to the loop test.
WorkerGet(w) ==
    /\ worker_pc[w] = "get"
    /\ IF message_queue # <<>>
       THEN /\ worker_item' = [worker_item EXCEPT ![w] = Head(message_queue)]
            /\ worker_tries' = [worker_tries EXCEPT ![w] = 0]
            /\ message_queue' = Tail(message_queue)
            /\ worker_pc' = [worker_pc EXCEPT ![w] = "sending"]
       ELSE /\ worker_pc' = [worker_pc EXCEPT ![w] = "loop"]
            /\ UNCHANGED <<worker_item, worker_tries, message_queue>>
    /\ UNCHANGED <<serviceVars, is_worker_running, worker_thread,
                   worker_result, joining, jobVars>>

\* Variant: an item whose send failed is put back on the queue.
RequeueOnFailure(sent, item, q) ==
    [pc |-> "loop", item |-> NoItem,
     queue |-> IF sent THEN q ELSE Append(q, item)]

\* After the send, failed or not: task_done and back to the loop test; the
\* exception of a failed send is caught and logged in _send_message_async /
\* _send_document_async.
AfterSend(sent, item, q) == [pc |-> "loop", item |-> NoItem, queue |-> q]

\* The one send of the item in hand; sent says whether it went through.
WorkerSend(w, sent) ==
    /\ worker_pc[w] = "sending"
    /\ worker_tries' = [worker_tries EXCEPT ![w] = @ + 1]
    /\ worker_result' = [worker_result EXCEPT
          ![w] = IF sent THEN "ok" ELSE "failed"]
    /\ \E after \in {AfterSend(sent, worker_item[w], message_queue)} :
          /\ worker_pc' = [worker_pc EXCEPT ![w] = after.pc]
          /\ worker_item' = [worker_item EXCEPT ![w] = after.item]
          /\ message_queue' = after.queue
    /\ UNCHANGED <<serviceVars, is_worker_running, worker_thread, joining,
                   jobVars>>

\* send_message / send_document from any thread, while the queue has room.
SendMessage ==
    /\ Len(message_queue) < MaxQueue
    /\ message_queue' = Append(message_queue, MessageItem)
    /\ UNCHANGED <<serviceVars, workerVars, jobVars>>

SendDocument ==
    /\ Len(message_queue) < MaxQueue
    /\ message_queue' = Append(message_queue, DocumentItem)
    /\ UNCHANGED <<serviceVars, workerVars, jobVars>>

InitService == InitTables /\ tracked = NoDevice /\ hour = WINDOW_START

NextWorker ==
    \/ StartWorker \/ StopWorker \/ JoinReturns \/ JoinTimeout
    \/ \E w \in Workers : WorkerLoop(w)
    \/ \E w \in Workers : WorkerGet(w)
    \/ \E w \in Workers : \E sent \in BOOLEAN : WorkerSend(w, sent)
    \/ SendMessage \/ SendDocument

SpecWorker == InitService /\ [][NextWorker]_vars

\* ---------------------------------------------------------- scheduled jobs
\* The run loop of a scheduled job.  A job stands at:
\*   "new"     start() not called
\*   "run"     thread started, before `self.is_running = True`
\*   "while"   at `while self.is_running`
\*   "wait"    (daily) in the one-second sleeps until midnight
\*   "guard"   at `if self.is_running` before task()
\*   "task"    inside task()
\*   "caught"  in the except block
\*   "sleep"   in time.sleep after the iteration
\*   "exited"  run() has returned
JobFrame ==
    UNCHANGED <<serviceVars, message_queue, workerVars>>

JobStart(j) ==
    /\ job_pc[j] = "new"
    /\ job_pc' = [job_pc EXCEPT ![j] = "run"]
    /\ UNCHANGED <<job_running, job_raised, job_stopped>>
    /\ JobFrame

JobRun(j) ==
    /\ job_pc[j] = "run"
    /\ job_running' = [job_running EXCEPT ![j] = TRUE]
    /\ job_pc' = [job_pc EXCEPT ![j] = "while"]
    /\ UNCHANGED <<job_raised, job_stopped>>
    /\ JobFrame

JobWhile(j) ==
    /\ job_pc[j] = "while"
    /\ job_pc' = [job_pc EXCEPT
          ![j] = IF ~job_running[j] THEN "exited"
                 ELSE IF j = "daily" THEN "wait" ELSE "guard"]
    /\ UNCHANGED <<job_running, job_raised, job_stopped>>
    /\ JobFrame

\* The inner loop ends: midnight has come or is_running is no longer set.
JobWait(j) ==
    /\ job_pc[j] = "wait"
    /\ job_pc' = [job_pc EXCEPT ![j] = "guard"]
    /\ UNCHANGED <<job_running, job_raised, job_stopped>>
    /\ JobFrame

\* Where an iteration goes on after task() returned or was skipped.
AfterIteration(j) == IF j = "daily" THEN "while" ELSE "sleep"

JobGuard(j) ==
    /\ job_pc[j] = "guard"
    /\ job_pc' = [job_pc EXCEPT
          ![j] = IF job_running[j] THEN "task" ELSE AfterIteration(j)]
    /\ UNCHANGED <<job_running, job_raised, job_stopped>>
    /\ JobFrame

\* Variant: no except clause, the exception ends run().
RaiseEndsRun(j) == "exited"

\* except Exception: the exception of task() is caught inside the loop.
AfterRaise(j) == "caught"

\* task() returns or raises.
JobTask(j, raises) ==
    /\ job_pc[j] = "task"
    /\ job_pc' = [job_pc EXCEPT
          ![j] = IF raises THEN AfterRaise(j) ELSE AfterIteration(j)]
    /\ job_raised' = [job_raised EXCEPT ![j] = @ \/ raises]
    /\ UNCHANGED <<job_running, job_stopped>>
    /\ JobFrame

\* The except block logs; the daily loop then sleeps 300 seconds, the base
\* loop goes on to its interval sleep.
JobCaught(j) ==
    /\ job_pc[j] = "caught"
    /\ job_pc' = [job_pc EXCEPT ![j] = "sleep"]
    /\ UNCHANGED <<job_running, job_raised, job_stopped>>
    /\ JobFrame

JobSleep(j) ==
    /\ job_pc[j] = "sleep"
    /\ job_pc' = [job_pc EXCEPT ![j] = "while"]
    /\ UNCHANGED <<job_running, job_raised, job_stopped>>
    /\ JobFrame

\* stop(), called once, at any time after start(): is_running = False.
JobStop(j) ==
    /\ job_pc[j] # "new"
    /\ ~job_stopped[j]
    /\ job_running' = [job_running EXCEPT ![j] = FALSE]
    /\ job_stopped' = [job_stopped EXCEPT ![j] = TRUE]
    /\ UNCHANGED <<job_pc, job_raised>>
    /\ JobFrame

JobStep(j) ==
    \/ JobRun(j) \/ JobWhile(j) \/ JobWait(j) \/ JobGuard(j)
    \/ (\E raises \in BOOLEAN : JobTask(j, raises))
    \/ JobCaught(j) \/ JobSleep(j)

NextJobs ==
    \/ \E j \in Jobs : JobStart(j)
    \/ \E j \in Jobs : JobRun(j)
    \/ \E j \in Jobs : JobWhile(j)
    \/ \E j \in Jobs : JobWait(j)
    \/ \E j \in Jobs : JobGuard(j)
    \/ \E j \in Jobs : \E raises \in BOOLEAN : JobTask(j, raises)
    \/ \E j \in Jobs : JobCaught(j)
    \/ \E j \in Jobs : JobSleep(j)
    \/ \E j \in Jobs : JobStop(j)

\* A job thread that can take a step takes it: sleeps end, task() returns
\* or raises.
SpecJobs ==
    /\ InitService
    /\ [][NextJobs]_vars
    /\ \A j \in Jobs : WF_vars(JobStep(j))

\* ------------------------------------------------------- snapshot to rows
\* Readings within the thresholds, delivered one at a time, next to the
\* persistence job with its database calls.
SaveMessages ==
    {Message(MQTT_TOPICS["dryer1"], Object([temperature |-> F(1300)])),
     Message(MQTT_TOPICS["dryer1"], Object([temperature |-> JNull])),
     Message(MQTT_TOPICS["dryer2"], Object([temperature |-> F(1400)])),
     Message(MQTT_TOPICS["kedi1"], Object([temperature |-> F(1300)]))}

OnSaveReading == \E m \in SaveMessages : _on_message(m)

NextSave ==
    \/ OnSaveReading
    \/ SnapAcquire \/ SnapCopy \/ SnapRelease
    \/ \E success \in BOOLEAN : InsertRow(success)
    \/ SaveDone

SpecSave ==
    /\ InitService
    /\ [][NextSave]_vars
    /\ WF_vars(SnapAcquire \/ SnapCopy \/ SnapRelease \/ SaveDone)
    /\ WF_vars(\E success \in BOOLEAN : InsertRow(success))

\* ------------------------------------------------------- same-device calls
\* Concurrent deliveries that all carry a temperature for dryer1: two
\* objects with a number, one with null, and a bare number (stored with the
\* offset added).
SameDeviceMessages ==
    {Message(MQTT_TOPICS["dryer1"], Object([temperature |-> F(1600)])),
     Message(MQTT_TOPICS["dryer1"], Object([temperature |-> F(1300)])),
     Message(MQTT_TOPICS["dryer1"], Object([temperature |-> JNull])),
     Message(MQTT_TOPICS["dryer1"], Number(F(1100)))}

NextLastWrite ==
    \/ \E t \in Threads : \E m \in SameDeviceMessages : Start(t, m)
    \/ \E t \in Threads : AcquireInOrder(t)
    \/ \E t \in Threads : Update(t)
    \/ \E t \in Threads : Release(t)
    \/ \E t \in Threads : Check(t)
    \/ \E t \in Threads : Write(t)
    \/ \E t \in Threads : Telegram(t)
    \/ \E t \in Threads : Notify(t)

SpecLastWrite ==
    /\ InitThreaded
    /\ [][NextLastWrite]_vars
    /\ \A t \in Threads :
         /\ WF_vars(\E m \in SameDeviceMessages : Start(t, m))
         /\ SF_vars(AcquireInOrder(t))
         /\ WF_vars(ThreadStep(t))

\* ---------------------------------------------------------------- startup
\* TemperatureMonitor.run from its try block on.  run_pc is
\*   "connect"       before mqtt_service.connect()
\*   "start_worker"  before telegram_service.start_worker()
\*   "start_tasks"   before self.start_background_tasks()
\*   "serving"       past it, in the rest of the try block
\*   "finally"       an exception has left the try block
\*   "stop_worker"   before telegram_service.stop_worker()
\*   "join"          in stop_worker, before mqtt_service.disconnect()
\*   "stopped"       run() has ended
\* The parameters of each task class's __init__, self left out.
TaskParameters(cls) ==
    CASE cls = "DataSaveTask" -> <<"config", "data_provider", "db_manager">>
      [] cls = "DailyExcelReportTask" -> <<"config", "db_manager", "telegram_service">>
      [] cls = "KeepaliveTask" -> <<"config">>
      [] cls = "MonitorDataTask" -> <<"config", "db_manager", "telegram_service">>

TaskCall(cls, args) == [cls |-> cls, args |-> args]

\* The constructor calls of start_background_tasks, in order.
TaskCalls ==
    <<TaskCall("DataSaveTask", <<"config", "self", "db_manager", "dryer">>),
      TaskCall("DataSaveTask", <<"config", "self", "db_manager", "kedi">>),
      TaskCall("DataSaveTask", <<"config", "self", "db_manager", "boiler">>),
      TaskCall("DailyExcelReportTask",
               <<"config", "db_manager", "telegram_service", "dryer">>),
      TaskCall("DailyExcelReportTask",
               <<"config", "db_manager", "telegram_service", "kedi">>),
      TaskCall("DailyExcelReportTask",
               <<"config", "db_manager", "telegram_service", "boiler">>),
      TaskCall("KeepaliveTask", <<"config">>),
      TaskCall("MonitorDataTask",
               <<"config", "db_manager", "telegram_service", "dryer">>),
      TaskCall("MonitorDataTask",
               <<"config", "db_manager", "telegram_service", "kedi">>),
      TaskCall("MonitorDataTask",
               <<"config", "db_manager", "telegram_service", "boiler">>)>>

\* A call with positional arguments to an __init__ without defaults binds
\* only if there is one argument per parameter; otherwise TypeError.
Binds(call) == Len(call.args) = Len(TaskParameters(call.cls))

\* self.tasks after the appends that run before the first call that raises.
RECURSIVE Appended(_)
Appended(calls) ==
    IF calls = <<>> THEN <<>>
    ELSE IF Binds(Head(calls))
         THEN <<Head(calls).cls>> \o Appended(Tail(calls))
         ELSE <<>>

\* The MQTT network loop runs from connect() to disconnect().
Connected ==
    run_pc \in {"start_worker", "start_tasks", "serving", "finally",
                "stop_worker", "join"}

RunConnect ==
    /\ run_pc = "connect"
    /\ run_pc' = "start_worker"
    /\ UNCHANGED <<monitorVars, message_queue, workerVars, jobVars, tasks>>

RunStartWorker ==
    /\ run_pc = "start_worker"
    /\ StartWorkerCall
    /\ run_pc' = "start_tasks"
    /\ UNCHANGED tasks

\* The appends, then task.start() for every task if no constructor raised.
start_background_tasks ==
    /\ run_pc = "start_tasks"
    /\ tasks' = Appended(TaskCalls)
    /\ IF Len(Appended(TaskCalls)) = Len(TaskCalls)
       THEN /\ run_pc' = "serving"
            /\ job_pc' = [j \in Jobs |-> "run"]
       ELSE /\ run_pc' = "finally"
            /\ UNCHANGED job_pc
    /\ UNCHANGED <<monitorVars, message_queue, workerVars, job_running,
                   job_raised, job_stopped>>

\* stop_background_tasks: task.stop() for every task in self.tasks.
RunStopTasks ==
    /\ run_pc = "finally"
    /\ run_pc' = "stop_worker"
    /\ IF tasks # <<>>
       THEN /\ job_running' = [j \in Jobs |-> FALSE]
            /\ job_stopped' = [j \in Jobs |-> TRUE]
       ELSE UNCHANGED <<job_running, job_stopped>>
    /\ UNCHANGED <<monitorVars, message_queue, workerVars, job_pc,
                   job_raised, tasks>>

RunStopWorker ==
    /\ run_pc = "stop_worker"
    /\ StopWorkerCall
    /\ run_pc' = "join"
    /\ UNCHANGED tasks

\* The join is over; disconnect() stops the network loop.
RunDisconnect ==
    /\ run_pc = "join"
    /\ joining = 0
    /\ run_pc' = "stopped"
    /\ UNCHANGED <<monitorVars, message_queue, workerVars, jobVars, tasks>>

StartupMessages == SaveMessages \cup GateMessages

OnStartupReading ==
    /\ Connected
    /\ QueuesHaveRoom
    /\ \E m \in StartupMessages : _on_message(m)

NextStartup ==
    \/ RunConnect \/ RunStartWorker \/ start_background_tasks
    \/ RunStopTasks \/ RunStopWorker \/ RunDisconnect
    \/ JoinReturns \/ JoinTimeout
    \/ \E w \in Workers : WorkerLoop(w)
    \/ \E w \in Workers : WorkerGet(w)
    \/ \E w \in Workers : \E sent \in BOOLEAN : WorkerSend(w, sent)
    \/ OnStartupReading

\* The main thread and the worker thread take the steps they can take.
SpecStartup ==
    /\ InitService
    /\ [][NextStartup]_vars
    /\ WF_vars(RunConnect \/ RunStartWorker \/ start_background_tasks
               \/ RunStopTasks \/ RunStopWorker \/ RunDisconnect
               \/ JoinReturns \/ JoinTimeout)
    /\ \A w \in Workers :
         WF_vars(WorkerLoop(w) \/ WorkerGet(w)
                 \/ \E sent \in BOOLEAN : WorkerSend(w, sent))

\* ---------------------------------------------------------------- decoder
\* Text payloads of every shape the parsers tell apart, on routed channels
\* and on an unknown one.
DecodeMessages ==
    {Message(MQTT_TOPICS["dryer1"], p) :
        p \in {Number(F(1600)), Padded(Number(F(1100))), Number(NaN), Word,
               Padded(Word), BadObject,
               Object([temperature |-> F(1300)]),
               Object([temperature |-> JBig]),
               Object([temperature |-> JStr])}} \cup
    {Message(MQTT_TOPICS["kedi1"], p) :
        p \in {Object([temperature |-> JStr, pressure |-> F(30), note |-> JStr]),
               Object([temperature |-> F(1300), pressure |-> JNull]),
               Object([note |-> JStr])}} \cup
    {Message(MQTT_TOPICS["boiler1"],
             Object([temperature |-> F(1300), water_level |-> JStr])),
     Message(MQTT_TOPICS["humidity4"], Object([humidity |-> JNull])),
     Message(UnknownTopic, Word),
     Message(UnknownTopic, Object([temperature |-> JStr]))}

OnDecode == QueuesHaveRoom /\ \E m \in DecodeMessages : _on_message(m)

NextDecode == OnDecode \/ ProcessQueue \/ StreamNotifications

SpecDecode == Init /\ [][NextDecode]_vars

\* -------------------------------------------------------------- reconnect
\* The reconnect thread of MQTTService.  reconnect_pc is
\*   "none"     no thread has been started
\*   "begin"    started, before `retry_delay = 5`
\*   "while"    at the loop test
\*   "sleep"    in time.sleep(retry_delay)
\*   "connect"  past the sleep, before the new client's connect()
\*   "wait"     in time.sleep(2)
\*   "exited"   _reconnect_loop has returned
ReconnectFrame ==
    UNCHANGED <<storeVars, alert_status, data_lock, queueVars, hour, callVars,
                observerVars, threadVars, saverVars, workerVars, jobVars,
                orderVars, runVars, sideVars, start_pc, disconnect_pc>>

max_delay == 300

\* Variant: the delay doubles without a ceiling.
BackoffUncapped(delay) == delay * 2

\* min(retry_delay * 2, max_delay)
Backoff(delay) == IF delay * 2 < max_delay THEN delay * 2 ELSE max_delay

\* reconnect_thread.is_alive()
ThreadAlive == reconnect_pc \notin {"none", "exited"}

\* _start_reconnect_thread: a new thread unless one is alive or reconnecting
\* is off.
StartReconnectThread ==
    IF ~ThreadAlive /\ should_reconnect
    THEN /\ reconnect_pc' = "begin"
         /\ retry_delay' = 0
         /\ failed_attempts' = 0
         /\ slept' = <<>>
    ELSE UNCHANGED <<reconnect_pc, retry_delay, failed_attempts, slept>>

\* Variant: the accepted connection subscribes to nothing.
SubscribeNothing(topics) == topics

\* `for topic in self.subscribed_topics: client.subscribe(topic)`
Subscriptions(topics) == topics \cup subscribed_topics

\* connect() called by run(), which calls disconnect() only afterwards: the
\* network loop starts, or connect raises and the reconnect thread is
\* started.
MqttConnect(raises) ==
    /\ mqtt_client = "none"
    /\ should_reconnect
    /\ IF raises
       THEN mqtt_client' = "stopped" /\ StartReconnectThread
       ELSE /\ mqtt_client' = "looping"
            /\ UNCHANGED <<reconnect_pc, retry_delay, failed_attempts, slept>>
    /\ subscribed' = {}
    /\ UNCHANGED <<is_connected, should_reconnect>>
    /\ UNCHANGED connack
    /\ ReconnectFrame

\* The network loop reports the broker's answer, rc 0 for accepted.
_on_connect(rc) ==
    /\ mqtt_client = "looping"
    /\ ~is_connected
    /\ IF rc = 0
       THEN /\ is_connected' = TRUE
            /\ subscribed' = Subscriptions(subscribed)
            /\ UNCHANGED <<reconnect_pc, retry_delay, failed_attempts, slept>>
       ELSE /\ UNCHANGED <<is_connected, subscribed>>
            /\ StartReconnectThread
    /\ UNCHANGED <<mqtt_client, should_reconnect>>
    /\ connack' = [rc |-> rc, flip |-> ~connack.flip]
    /\ ReconnectFrame

\* The network loop reports the loss of the connection.
_on_disconnect(rc) ==
    /\ mqtt_client = "looping"
    /\ is_connected
    /\ is_connected' = FALSE
    /\ IF should_reconnect /\ rc # 0
       THEN StartReconnectThread
       ELSE UNCHANGED <<reconnect_pc, retry_delay, failed_attempts, slept>>
    /\ UNCHANGED <<mqtt_client, should_reconnect, subscribed>>
    /\ UNCHANGED connack
    /\ ReconnectFrame

\* disconnect() up to its join of the reconnect thread.
MqttDisconnect ==
    /\ should_reconnect
    /\ should_reconnect' = FALSE
    /\ mqtt_client' = IF mqtt_client = "none" THEN "none" ELSE "stopped"
    /\ UNCHANGED <<is_connected, reconnect_pc, retry_delay, failed_attempts, slept,
                   subscribed>>
    /\ UNCHANGED connack
    /\ ReconnectFrame

ReconnectBegin ==
    /\ reconnect_pc = "begin"
    /\ retry_delay' = 5
    /\ reconnect_pc' = "while"
    /\ UNCHANGED <<mqtt_client, is_connected, should_reconnect, failed_attempts,
                   slept, subscribed>>
    /\ UNCHANGED connack
    /\ ReconnectFrame

\* `while self.should_reconnect and not self.is_connected`, into the sleep.
ReconnectWhile ==
    /\ reconnect_pc = "while"
    /\ failed_attempts < MaxAttempts
    /\ IF should_reconnect /\ ~is_connected
       THEN /\ reconnect_pc' = "sleep"
            /\ slept' = Append(slept, retry_delay)
       ELSE /\ reconnect_pc' = "exited"
            /\ UNCHANGED slept
    /\ UNCHANGED <<mqtt_client, is_connected, should_reconnect, retry_delay,
                   failed_attempts, subscribed>>
    /\ UNCHANGED connack
    /\ ReconnectFrame

\* The sleep is over: `if not self.should_reconnect: break`.
ReconnectSleep ==
    /\ reconnect_pc = "sleep"
    /\ reconnect_pc' = IF should_reconnect THEN "connect" ELSE "exited"
    /\ UNCHANGED <<mqtt_client, is_connected, should_reconnect, retry_delay,
                   failed_attempts, slept, subscribed>>
    /\ UNCHANGED connack
    /\ ReconnectFrame

\* The old client is stopped and disconnected (its disconnect callback may
\* or may not be delivered), a new one is made and connects; the except
\* block doubles the delay when that raises.
ReconnectConnect(raises) ==
    /\ reconnect_pc = "connect"
    /\ \E c \in {is_connected, FALSE} : is_connected' = c
    /\ IF raises
       THEN /\ mqtt_client' = "stopped"
            /\ retry_delay' = Backoff(retry_delay)
            /\ failed_attempts' = failed_attempts + 1
            /\ reconnect_pc' = "while"
       ELSE /\ mqtt_client' = "looping"
            /\ reconnect_pc' = "wait"
            /\ UNCHANGED <<retry_delay, failed_attempts>>
    /\ subscribed' = {}
    /\ UNCHANGED <<should_reconnect, slept>>
    /\ UNCHANGED connack
    /\ ReconnectFrame

\* After time.sleep(2): double the delay if still not connected, else break.
ReconnectWait ==
    /\ reconnect_pc = "wait"
    /\ IF ~is_connected
       THEN /\ retry_delay' = Backoff(retry_delay)
            /\ failed_attempts' = failed_attempts + 1
            /\ reconnect_pc' = "while"
       ELSE /\ reconnect_pc' = "exited"
            /\ UNCHANGED <<retry_delay, failed_attempts>>
    /\ UNCHANGED <<mqtt_client, is_connected, should_reconnect, slept, subscribed>>
    /\ UNCHANGED connack
    /\ ReconnectFrame

NextReconnect ==
    \/ \E raises \in BOOLEAN : MqttConnect(raises)
    \/ \E rc \in {0, 5} : _on_connect(rc)
    \/ \E rc \in {0, 7} : _on_disconnect(rc)
    \/ MqttDisconnect
    \/ ReconnectBegin \/ ReconnectWhile \/ ReconnectSleep
    \/ \E raises \in BOOLEAN : ReconnectConnect(raises)
    \/ ReconnectWait

SpecReconnect == InitService /\ [][NextReconnect]_vars

\* ------------------------------------------------ shutdown next to reconnect
\* The statements of _start_reconnect_thread and of disconnect(), taken one
\* at a time.  The network thread stands at (start_pc):
\*   "idle"   outside _start_reconnect_thread
\*   "start"  past `is_alive()` and `if self.should_reconnect`, before the
\*            thread is made and started
\* and the main thread at (disconnect_pc):
\*   "none"      disconnect() has not been called
\*   "stop"      past `self.should_reconnect = False`
\*   "join"      past loop_stop() and client.disconnect()
\*   "returned"  disconnect() has returned
ShutdownFrame ==
    UNCHANGED <<storeVars, alert_status, data_lock, queueVars, hour, callVars,
                observerVars, threadVars, saverVars, workerVars, jobVars,
                orderVars, runVars, sideVars>>

\* Both tests of _start_reconnect_thread, as the calling thread sees them.
PassesStartTests == ~ThreadAlive /\ should_reconnect

\* _on_connect up to the two tests of _start_reconnect_thread.
OnConnectCall(rc) ==
    /\ mqtt_client = "looping"
    /\ ~is_connected
    /\ start_pc = "idle"
    /\ connack' = [rc |-> rc, flip |-> ~connack.flip]
    /\ IF rc = 0
       THEN /\ is_connected' = TRUE
            /\ subscribed' = Subscriptions(subscribed)
            /\ UNCHANGED start_pc
       ELSE /\ start_pc' = IF PassesStartTests THEN "start" ELSE "idle"
            /\ UNCHANGED <<is_connected, subscribed>>
    /\ UNCHANGED <<mqtt_client, should_reconnect, reconnect_pc, retry_delay,
                   failed_attempts, slept, disconnect_pc>>
    /\ ShutdownFrame

\* _on_disconnect up to the two tests of _start_reconnect_thread.
OnDisconnectCall(rc) ==
    /\ mqtt_client = "looping"
    /\ is_connected
    /\ start_pc = "idle"
    /\ is_connected' = FALSE
    /\ start_pc' = IF should_reconnect /\ rc # 0 /\ PassesStartTests
                   THEN "start" ELSE "idle"
    /\ UNCHANGED <<mqtt_client, should_reconnect, reconnect_pc, retry_delay,
                   failed_attempts, slept, subscribed, connack, disconnect_pc>>
    /\ ShutdownFrame

\* `self.reconnect_thread = threading.Thread(...)` and its start().
StartThread ==
    /\ start_pc = "start"
    /\ start_pc' = "idle"
    /\ reconnect_pc' = "begin"
    /\ retry_delay' = 0
    /\ failed_attempts' = 0
    /\ slept' = <<>>
    /\ UNCHANGED <<mqtt_client, is_connected, should_reconnect, subscribed,
                   connack, disconnect_pc>>
    /\ ShutdownFrame

\* disconnect(): `self.should_reconnect = False`.
DisconnectFlag ==
    /\ disconnect_pc = "none"
    /\ mqtt_client # "none"
    /\ should_reconnect' = FALSE
    /\ disconnect_pc' = "stop"
    /\ UNCHANGED <<mqtt_client, is_connected, reconnect_pc, retry_delay,
                   failed_attempts, slept, subscribed, connack, start_pc>>
    /\ ShutdownFrame

\* disconnect(): loop_stop(), which waits for the network thread to leave
\* its callback, and client.disconnect().
DisconnectStop ==
    /\ disconnect_pc = "stop"
    /\ start_pc = "idle"
    /\ mqtt_client' = "stopped"
    /\ disconnect_pc' = "join"
    /\ UNCHANGED <<is_connected, should_reconnect, reconnect_pc, retry_delay,
                   failed_attempts, slept, subscribed, connack, start_pc>>
    /\ ShutdownFrame

\* disconnect(): the join of a reconnect thread that is alive, and the return.
DisconnectJoin ==
    /\ disconnect_pc = "join"
    /\ ~ThreadAlive
    /\ disconnect_pc' = "returned"
    /\ UNCHANGED <<mqtt_client, is_connected, should_reconnect, reconnect_pc,
                   retry_delay, failed_attempts, slept, subscribed, connack,
                   start_pc>>
    /\ ShutdownFrame

ShutdownMessages ==
    {Message(MQTT_TOPICS["kedi1"], Object([temperature |-> F(1300)]))}

\* The network loop of a connected client hands a message to _on_message.
MqttDeliver ==
    /\ mqtt_client = "looping"
    /\ is_connected
    /\ start_pc = "idle"
    /\ QueuesHaveRoom
    /\ \E m \in ShutdownMessages : _on_message(m)

NextShutdown ==
    \/ \E raises \in BOOLEAN : MqttConnect(raises)
    \/ \E rc \in {0, 5} : OnConnectCall(rc)
    \/ \E rc \in {0, 7} : OnDisconnectCall(rc)
    \/ StartThread
    \/ DisconnectFlag \/ DisconnectStop \/ DisconnectJoin
    \/ ReconnectBegin \/ ReconnectWhile \/ ReconnectSleep
    \/ \E raises \in BOOLEAN : ReconnectConnect(raises)
    \/ ReconnectWait
    \/ MqttDeliver

SpecShutdown == InitService /\ [][NextShutdown]_vars

\* ------------------------------------------------------ multi-field update
\* The with block of _on_mqtt_message statement by statement: the assignment
\* to latest_temperatures first, the humidity, pressure and water_level
\* assignments after it.  thread_pc is "fields" between the two.
UpdateTemperature(t) ==
    /\ thread_pc[t] = "update"
    /\ latest_temperatures' =
          TemperaturesAfter(ThreadParsed(t), ThreadRoute(t)[1], ThreadRoute(t)[2])
    /\ thread_pc' = [thread_pc EXCEPT ![t] = "fields"]
    /\ UNCHANGED <<backgroundVars, latest_humidity, latest_pressure,
                   latest_water_level, alert_status, data_lock, queueVars, hour,
                   callVars, observerVars, thread_msg, thread_status, saverVars>>

UpdateFields(t) ==
    /\ thread_pc[t] = "fields"
    /\ LET parsed == ThreadParsed(t)
           system_type == ThreadRoute(t)[1]
           device_id == ThreadRoute(t)[2]
       IN /\ latest_humidity' = HumidityAfter(parsed, system_type, device_id)
          /\ latest_pressure' = PressureAfter(parsed, system_type, device_id)
          /\ latest_water_level' = WaterLevelAfter(parsed, system_type, device_id)
    /\ thread_pc' = [thread_pc EXCEPT ![t] = "release"]
    /\ UNCHANGED <<backgroundVars, latest_temperatures, alert_status, data_lock,
                   queueVars, hour, callVars, observerVars, thread_msg,
                   thread_status, saverVars>>

\* Objects with two recognised fields for one device.
FieldMessages ==
    {Message(MQTT_TOPICS["kedi1"],
             Object([temperature |-> F(1600), pressure |-> F(25)])),
     Message(MQTT_TOPICS["boiler1"],
             Object([temperature |-> F(1300), water_level |-> F(50)]))}

NextFields ==
    \/ \E t \in Threads : \E m \in FieldMessages : Start(t, m)
    \/ \E t \in Threads : Acquire(t)
    \/ \E t \in Threads : UpdateTemperature(t)
    \/ \E t \in Threads : UpdateFields(t)
    \/ \E t \in Threads : Release(t)
    \/ \E t \in Threads : Check(t)
    \/ \E t \in Threads : Write(t)
    \/ \E t \in Threads : Telegram(t)
    \/ \E t \in Threads : Notify(t)
    \/ SnapAcquire \/ SnapCopy \/ SnapRelease \/ Insert \/ SaveDone

SpecFields == InitThreaded /\ [][NextFields]_vars

\* -------------------------------------------------------------- properties
\* A step that is one delivery: MQTTService._on_message from call to return.
DeliveryStep == delivered' # delivered

\* The temperature a payload feeds to the alert check, None if it feeds none:
\* a bare number plus the offset, or the numeric "temperature" of an object.
FedTemperature(payload) ==
    IF payload.form = "number"
    THEN (IF payload.value.kind = "float"
          THEN F(payload.value.tenths + TEMPERATURE_OFFSET)
          ELSE payload.value)
    ELSE IF /\ payload.form = "object" /\ payload.valid
            /\ "temperature" \in DOMAIN payload.data
            /\ IsFloat(payload.data["temperature"])
    THEN payload.data["temperature"]
    ELSE None

\* The message m is a readable temperature reading for the alert device d.
Feeds(m, d) ==
    /\ m.topic = MQTT_TOPICS[d]
    /\ m.payload.utf8
    /\ FedTemperature(m.payload) # None

SystemOf(d) ==
    CASE d \in {"dryer1", "dryer2", "dryer3"} -> "dryer"
      [] d \in {"kedi1", "kedi2"} -> "kedi"
      [] d \in {"boiler1", "boiler2"} -> "boiler"

\* The alert state the thresholds assign to a temperature.
Classified(t) ==
    IF t.kind = "float" /\ t.tenths > MAX_TEMP_ALERT THEN "HIGH"
    ELSE IF t.kind = "float" /\ t.tenths < MIN_TEMP_ALERT THEN "LOW"
    ELSE "NORMAL"

\* C1: a reading equal to the device's previous reading changes neither the
\* device's alert state nor any queue.
RepeatedReadingIsSilent ==
    DeliveryStep =>
      \A d \in AlertDevices :
        (/\ Feeds(msg', d)
         /\ latest_temperatures[SystemOf(d)][d] = FedTemperature(msg'.payload))
        => /\ alert_status'[d] = alert_status[d]
           /\ UNCHANGED queueVars

\* C1: a run of readings above MAX_TEMP_ALERT that began in NORMAL has made
\* exactly one transition into HIGH and put exactly one notification on the
\* dashboard queue and at most one message on the Telegram queue.
ExcursionAlertsOnce ==
    excursion.readings >= 1 =>
      /\ excursion.highs = 1
      /\ excursion.notes = 1
      /\ excursion.sent <= 1

\* C1: deduplication: repeated identical readings are silent after the first,
\* and k >= 1 consecutive readings above MAX_TEMP_ALERT from NORMAL give
\* exactly one HIGH transition and one notification.
C1_Deduplication == []ExcursionAlertsOnce /\ [][RepeatedReadingIsSilent]_vars

\* A run of at least two identical readings above the ceiling has been seen
\* and it alerted once.
C1_Witness ==
    /\ excursion.readings >= 2
    /\ excursion.same
    /\ excursion.highs = 1
    /\ excursion.notes = 1

\* C2 as stated: the readings 130.0, 160.0, 130.0 from NORMAL give
\* NORMAL -> HIGH -> NORMAL and exactly two notifications.
C2_TwoNotifications ==
    roundtrip.stage = 3 =>
      /\ roundtrip.states = <<"NORMAL", "HIGH", "NORMAL">>
      /\ roundtrip.notes = 2

\* C2: the readings 130.0, 160.0, 130.0 from NORMAL give NORMAL -> HIGH on
\* 160.0 and HIGH -> NORMAL on the return to 130.0; exactly one dashboard
\* notification and at most one Telegram message are produced, all on the
\* 160.0 reading: the return to NORMAL puts nothing on either queue.
C2_RoundTrip ==
    /\ roundtrip.stage = 1 =>
         /\ roundtrip.states = <<"NORMAL">>
         /\ roundtrip.notes = 0 /\ roundtrip.sent = 0
    /\ roundtrip.stage = 2 =>
         /\ roundtrip.states = <<"NORMAL", "HIGH">>
         /\ roundtrip.notes = 1 /\ roundtrip.sent <= 1
    /\ roundtrip.stage = 3 =>
         /\ roundtrip.states = <<"NORMAL", "HIGH", "NORMAL">>
         /\ roundtrip.notes = 1 /\ roundtrip.sent <= 1

\* The three readings have been evaluated in a row and the device is back in
\* NORMAL.
C2_Witness ==
    /\ roundtrip.stage = 3
    /\ alert_status[tracked] = "NORMAL"
    /\ latest_temperatures[SystemOf(tracked)][tracked] = F(1300)

\* C3: after a delivery that feeds the number t to an alert device, the
\* device is HIGH if t > MAX_TEMP_ALERT, LOW if t < MIN_TEMP_ALERT and NORMAL
\* in between, whatever its state was; the queues grow only if the state
\* changed.
C3_Transition ==
    [][DeliveryStep =>
        \A d \in AlertDevices :
          (Feeds(msg', d) /\ FedTemperature(msg'.payload).kind = "float")
          => /\ alert_status'[d] = Classified(FedTemperature(msg'.payload))
             /\ (~UNCHANGED queueVars => alert_status'[d] # alert_status[d])]_vars

\* A reading below the floor has just put the tracked device in LOW, with its
\* notification queued.
C3_Witness ==
    /\ outcome = "processed"
    /\ Feeds(msg, tracked)
    /\ FedTemperature(msg.payload) = F(1100)
    /\ alert_status[tracked] = "LOW"
    /\ notification_queue # <<>>
    /\ notification_queue[Len(notification_queue)].status = "LOW"

\* C4: a reading exactly at MAX_TEMP_ALERT or exactly at MIN_TEMP_ALERT leaves
\* the device in NORMAL, whatever its state was, and puts nothing on a queue.
C4_BoundaryStrict ==
    [][DeliveryStep =>
        \A d \in AlertDevices :
          (/\ Feeds(msg', d)
           /\ FedTemperature(msg'.payload) \in {F(MAX_TEMP_ALERT), F(MIN_TEMP_ALERT)})
          => /\ alert_status'[d] = "NORMAL"
             /\ UNCHANGED queueVars]_vars

\* The bare payload 142.4, which the offset brings to exactly 155.0, has just
\* been processed and its device is in NORMAL.
C4_Witness ==
    /\ outcome = "processed"
    /\ Feeds(msg, tracked)
    /\ msg.payload.form = "number"
    /\ FedTemperature(msg.payload) = F(MAX_TEMP_ALERT)
    /\ alert_status[tracked] = "NORMAL"

\* The payload is a well-formed object whose temperature is absent or is not
\* a number.
NullTemperature(payload) ==
    /\ payload.utf8 /\ payload.form = "object" /\ payload.valid
    /\ \/ "temperature" \notin DOMAIN payload.data
       \/ ~IsFloat(payload.data["temperature"])

\* C5: a delivery whose temperature is null or absent leaves every device's
\* alert state as it was and puts nothing on either queue.
C5_NullSafety ==
    [][(DeliveryStep /\ NullTemperature(msg'.payload))
        => UNCHANGED <<alert_status, queueVars>>]_vars

\* A payload with a non-numeric temperature has been processed for dryer1
\* while it was in HIGH: the store now holds None, the state is still HIGH.
C5_Witness ==
    /\ outcome = "processed"
    /\ msg = Message(MQTT_TOPICS["dryer1"], Object([temperature |-> JStr]))
    /\ latest_temperatures["dryer"]["dryer1"] = None
    /\ alert_status["dryer1"] = "HIGH"

\* The last delivery was a bare number for the alert device d and ran to its
\* end.
BareNumberProcessed(d) ==
    /\ outcome = "processed"
    /\ msg.topic = MQTT_TOPICS[d]
    /\ msg.payload.utf8
    /\ msg.payload.form = "number"
    /\ msg.payload.value.kind = "float"

\* C6 as stated: after a bare numeric payload s on a temperature channel the
\* store holds float(s) for the device.
C6_StoresPayloadValue ==
    \A d \in AlertDevices :
      BareNumberProcessed(d)
      => latest_temperatures[SystemOf(d)][d] = msg.payload.value

\* C6: after a bare numeric payload s on a temperature channel the store
\* holds float(s) + TEMPERATURE_OFFSET for the device (payload "160.0" leaves
\* 172.6), and that same value is the one evaluated against the thresholds.
C6_StoresOffsetValue ==
    \A d \in AlertDevices :
      BareNumberProcessed(d)
      => /\ latest_temperatures[SystemOf(d)][d] =
              F(msg.payload.value.tenths + TEMPERATURE_OFFSET)
         /\ alert_status[d] =
              Classified(F(msg.payload.value.tenths + TEMPERATURE_OFFSET))

\* The payload 110.0 has been processed for dryer1: the store holds 122.6 and
\* the device is in NORMAL, not in LOW.
C6_Witness ==
    /\ BareNumberProcessed("dryer1")
    /\ msg.payload.value = F(1100)
    /\ latest_temperatures["dryer"]["dryer1"] = F(1226)
    /\ alert_status["dryer1"] = "NORMAL"

\* The channels of the routing table.
RoutedTopics == {MQTT_TOPICS[d] : d \in AlertDevices \cup {"humidity4"}}

\* The payload decodes to a value: a number or a well-formed object.
Decodes(payload) ==
    /\ payload.utf8
    /\ \/ payload.form = "number"
       \/ payload.form = "object" /\ payload.valid

\* C7: a delivery on a channel outside the routing table finds no route and
\* leaves the latest-value tables, the alert states and both queues as they
\* were.
C7_UnknownChannelNoOp ==
    [][(DeliveryStep /\ msg'.topic \notin RoutedTopics)
        => /\ UNCHANGED <<storeVars, alert_status, queueVars>>
           /\ Decodes(msg'.payload) => outcome' = "not_found"]_vars

\* A temperature on the subscribed but unrouted kedi3 channel has been dropped
\* at the route lookup, with a reading for dryer1 already in the store.
C7_Witness ==
    /\ outcome = "not_found"
    /\ msg.topic = MQTT_TOPICS["kedi3"]
    /\ latest_temperatures["dryer"]["dryer1"] # None
    /\ "kedi3" \notin DOMAIN latest_temperatures["kedi"]

\* The payload is text that is neither a number nor a well-formed object.
DecodeFails(payload) ==
    /\ payload.utf8
    /\ \/ payload.form = "word"
       \/ payload.form = "object" /\ ~payload.valid

\* C8: a delivery whose payload fails to decode, on any channel, ends without
\* the coordinator callback being invoked: tables, alert states and queues are
\* as they were.
C8_DecodeErrorNoOp ==
    [][(DeliveryStep /\ DecodeFails(msg'.payload))
        => /\ outcome' = "decode_error"
           /\ UNCHANGED <<storeVars, alert_status, queueVars>>]_vars

\* Text that is not a number has been dropped on the routed dryer1 channel and
\* dryer1 is not in LOW.
C8_Witness ==
    /\ outcome = "decode_error"
    /\ msg = Message(MQTT_TOPICS["dryer1"], Word)
    /\ alert_status["dryer1"] # "LOW"

\* C9: no _on_message call lets an exception out to the transport client.
C9_NoExceptionEscapes == outcome # "escaped"

\* The ways a message can fail and still return to the transport client.
Failed == {"decode_error", "not_found", "caught"}

\* The delivery feeds the number t to the alert device d and has its full
\* effect: the store holds t, the state is the one the thresholds assign, and
\* a change into HIGH or LOW is on the dashboard queue and, in operating
\* hours, on the Telegram queue.
FullEffect(d, t) ==
    /\ outcome' = "processed"
    /\ data_lock' = "free"
    /\ latest_temperatures'[SystemOf(d)][d] = t
    /\ alert_status'[d] = Classified(t)
    /\ (alert_status[d] # Classified(t) /\ Classified(t) # "NORMAL")
       => /\ Len(notification_queue') = Len(notification_queue) + 1
          /\ notification_queue'[Len(notification_queue')].device = d
          /\ notification_queue'[Len(notification_queue')].status = Classified(t)
          /\ notification_queue'[Len(notification_queue')].temperature = t
          /\ (WINDOW_START <= hour /\ hour < WINDOW_END)
             => /\ Len(message_queue') = Len(message_queue) + 1
                /\ message_queue'[Len(message_queue')].device = d
                /\ message_queue'[Len(message_queue')].status = Classified(t)

NextAfterFailureHasFullEffect ==
    (DeliveryStep /\ outcome \in Failed)
    => \A d \in AlertDevices :
         (Feeds(msg', d) /\ FedTemperature(msg'.payload).kind = "float")
         => FullEffect(d, FedTemperature(msg'.payload))

\* C10: after a message that failed (decode error, unknown channel, exception
\* caught from the coordinator) the store lock is free and the next valid
\* routed message has its full effect.
C10_FailureDoesNotPoison ==
    /\ [](outcome \in Failed => data_lock = "free")
    /\ [][NextAfterFailureHasFullEffect]_vars

\* Right after a message whose processing raised inside the coordinator, a
\* reading above the ceiling has put dryer1 in HIGH with its notification.
C10_Witness ==
    /\ previous_outcome = "caught"
    /\ outcome = "processed"
    /\ msg = Message(MQTT_TOPICS["dryer1"], Object([temperature |-> F(1600)]))
    /\ data_lock = "free"
    /\ latest_temperatures["dryer"]["dryer1"] = F(1600)
    /\ alert_status["dryer1"] = "HIGH"
    /\ notification_queue # <<>>
    /\ notification_queue[Len(notification_queue)].device = "dryer1"

\* ------------------------------------------------- concurrency properties
AllDone == \A t \in Threads : thread_pc[t] = "done"

\* The threads whose call carries a temperature above MAX_TEMP_ALERT for d.
HighCallers(d) ==
    {t \in Threads : /\ thread_pc[t] # "idle"
                     /\ ThreadDevice(t) = d
                     /\ IsHigh(ThreadReading(t))}

\* The HIGH notifications for d on the dashboard queue.
HighNotifications(d) ==
    {i \in 1..Len(notification_queue) :
        /\ notification_queue[i].device = d
        /\ notification_queue[i].status = "HIGH"}

\* C11: when two or more calls for the same device, each with a temperature
\* above MAX_TEMP_ALERT, run concurrently from NORMAL, at most one of them
\* sees the state before the transition, and once all have returned exactly
\* one HIGH notification has been produced.
C11_ExactlyOneHigh ==
    \A d \in AlertDevices :
        Cardinality(HighCallers(d)) >= 2 =>
            /\ Cardinality({t \in HighCallers(d) : thread_status[t] = "HIGH"}) <= 1
            /\ Cardinality(HighNotifications(d)) <= 1
            /\ (\A t \in HighCallers(d) : thread_pc[t] = "done")
                  => Cardinality(HighNotifications(d)) = 1

\* Every thread has been handed a message, no two for the same device.
DistinctDevices ==
    /\ \A t \in Threads : thread_pc[t] # "idle"
    /\ \A t, u \in Threads : t # u => ThreadDevice(t) # ThreadDevice(u)

\* The snapshot in hand shows for the device of thread t the value of t's
\* message.
SnapshotShows(t) ==
    LET table == SnapshotEntry(ThreadRoute(t)[1]) IN
    /\ ThreadDevice(t) \in DOMAIN table
    /\ table[ThreadDevice(t)] = ThreadReading(t)

\* C12: concurrent calls for distinct routed devices all return, and a
\* snapshot taken after all of them have returned holds for each device
\* exactly the value its message carried.
C12_NoLostUpdates ==
    /\ <>AllDone
    /\ [](/\ DistinctDevices
          /\ snapshot # NoSnapshot
          /\ snapshot_after = Threads
          => \A t \in Threads : SnapshotShows(t))

C12_Witness ==
    /\ DistinctDevices
    /\ snapshot # NoSnapshot
    /\ snapshot_after = Threads
    /\ \A t \in Threads : SnapshotShows(t)

\* The threads inside a `with self.data_lock` block: a transport thread at
\* the assignments to the tables, the persistence thread at the copies.
InsideWith ==
    {t \in Threads : thread_pc[t] \in {"update", "release"}}

SaverInsideWith == saver_pc \in {"copy", "release"}

\* The threads evaluating alerts or putting on a queue, and the persistence
\* thread at its database calls.
OutsideWork ==
    {t \in Threads : thread_pc[t] \in {"check", "write", "telegram", "notify"}}

C14_SnapshotIsolation ==
    [][snapshot # NoSnapshot /\ snapshot' # NoSnapshot =>
          /\ \A name \in DOMAIN snapshot : SnapshotEntry(name)' = SnapshotEntry(name)
          /\ ReadingsToSave' = ReadingsToSave]_vars

C14_Witness ==
    /\ snapshot # NoSnapshot
    /\ saver_pc = "save"
    /\ save_pos = 1
    /\ snapshot["dryer"].value # latest_temperatures["dryer"]
    /\ SnapshotEntry("dryer")["dryer1"] = F(1600)
    /\ SnapshotEntry("dryer")["dryer2"] = None

\* ------------------------------------------------- notification properties
\* The local hour is before 6 or from 17 on.
OutsideWindow == hour < WINDOW_START \/ hour >= WINDOW_END

\* The delivery changes the alert state of d to HIGH or to LOW.
TransitionInto(d) ==
    /\ DeliveryStep
    /\ alert_status'[d] # alert_status[d]
    /\ alert_status'[d] \in {"HIGH", "LOW"}

\* C15 as stated: a transition outside the operating window (hour < 6 or
\* hour >= 17) updates the alert state and puts nothing on any outbound
\* queue.
C15_NothingEnqueuedOutsideWindow ==
    [][\A d \in AlertDevices :
          TransitionInto(d) /\ OutsideWindow =>
              /\ alert_status'[d] = Classified(FedTemperature(msg'.payload))
              /\ UNCHANGED queueVars]_vars

\* C15: a transition into HIGH or LOW outside the operating window updates
\* the alert state and puts no message on the Telegram queue; the dashboard
\* notification is put on notification_queue all the same.
C15_TelegramGatedOnly ==
    [][\A d \in AlertDevices :
          TransitionInto(d) /\ OutsideWindow =>
              /\ alert_status'[d] = Classified(FedTemperature(msg'.payload))
              /\ UNCHANGED message_queue
              /\ Len(notification_queue') = Len(notification_queue) + 1
              /\ notification_queue'[Len(notification_queue')].device = d]_vars

\* The first delivery, outside the window, took dryer1 out of NORMAL: the
\* dashboard queue holds its notification, the Telegram queue nothing.
C15_Witness ==
    /\ OutsideWindow
    /\ delivered = 1 /\ previous_outcome = "none" /\ outcome = "processed"
    /\ alert_status["dryer1"] = "LOW"
    /\ message_queue = <<>>
    /\ Len(notification_queue) = 1
    /\ notification_queue[1].status = "LOW"

\* The four things the claim asks of an alert message.
AlertFields == {"device", "temperature", "threshold", "time"}

\* C16 as stated: every message on the Telegram dispatcher queue carries the
\* device id, the measured value, the threshold crossed and the time.
C16_CarriesAllFour ==
    \A i \in 1..Len(message_queue) : AlertFields \subseteq DOMAIN message_queue[i]

\* C16: the message a transition into HIGH or LOW puts on the Telegram queue
\* carries the device id, the measured value and the time of the event and
\* no threshold; the dashboard notification of the same transition carries
\* the device id, the measured value and the threshold crossed and no time.
C16_MessageContent ==
    [][\A d \in AlertDevices :
          TransitionInto(d) =>
            LET t == FedTemperature(msg'.payload)
                sent == message_queue'[Len(message_queue')]
                note == notification_queue'[Len(notification_queue')]
            IN /\ ~OutsideWindow =>
                    /\ Len(message_queue') = Len(message_queue) + 1
                    /\ DOMAIN sent \cap AlertFields = {"device", "temperature", "time"}
                    /\ sent.device = d
                    /\ sent.temperature = t
                    /\ sent.time = hour
               /\ Len(notification_queue') = Len(notification_queue) + 1
               /\ DOMAIN note \cap AlertFields = {"device", "temperature", "threshold"}
               /\ note.device = d
               /\ note.temperature = t
               /\ note.threshold = IF alert_status'[d] = "HIGH"
                                   THEN MAX_TEMP_ALERT ELSE MIN_TEMP_ALERT]_vars

\* The first delivery, inside the window, took dryer1 to HIGH and both of
\* its messages are on their queues.
C16_Witness ==
    /\ ~OutsideWindow
    /\ delivered = 1 /\ previous_outcome = "none" /\ outcome = "processed"
    /\ alert_status["dryer1"] = "HIGH"
    /\ Len(message_queue) = 1 /\ message_queue[1].temperature = F(1600)
    /\ Len(notification_queue) = 1
    /\ notification_queue[1].threshold = MAX_TEMP_ALERT

\* C17: every call that has begun returns, whatever the consumers of the
\* two queues do: neither put waits for the queue to be drained.
C17_NonBlocking ==
    \A t \in Threads : (thread_pc[t] # "idle") ~> (thread_pc[t] = "done")

\* Every call has returned with more items left on each queue than MaxQueue:
\* nothing was drained meanwhile.
C17_Witness ==
    /\ AllDone
    /\ Len(message_queue) > MaxQueue
    /\ Len(notification_queue) > MaxQueue

\* ------------------------------------------------------- worker properties
\* The step is worker w's send of the item it holds.
SendStep(w) == worker_pc[w] = "sending" /\ worker_tries'[w] # worker_tries[w]

\* C18: an item taken from the dispatcher queue is sent at most once; after
\* the send, failed or not, the item is gone, the queue is as it was (nothing
\* is put back) and the worker is back at its loop test, from where, while
\* is_worker_running is set, it goes on to the next get.
C18_BestEffortNoRetry ==
    /\ [](\A w \in Workers : worker_tries[w] <= 1)
    /\ [][\A w \in Workers :
            /\ SendStep(w) =>
                 /\ worker_item'[w] = NoItem
                 /\ message_queue' = message_queue
                 /\ worker_pc'[w] = "loop"
            /\ (/\ worker_pc[w] = "loop" /\ worker_pc'[w] # "loop"
                /\ worker_result[w] = "failed" /\ is_worker_running)
                 => worker_pc'[w] = "get"]_vars

\* A worker whose last send failed holds the next item, not yet attempted.
C18_Witness ==
    \E w \in Workers :
        /\ worker_result[w] = "failed"
        /\ worker_pc[w] = "sending"
        /\ worker_item[w] = DocumentItem
        /\ worker_tries[w] = 0

\* The workers taking from the queue or sending.
Consuming == {w \in Workers : worker_pc[w] \in {"get", "sending"}}

\* C19: at most one worker is consuming the dispatcher queue and at most one
\* send is in progress, whatever the sequence of start_worker, stop_worker,
\* send_message and send_document calls.
C19_SingleWorker ==
    /\ Cardinality(Consuming) <= 1
    /\ Cardinality({w \in Workers : worker_pc[w] = "sending"}) <= 1

\* ---------------------------------------------------------- job properties
\* C20: an exception of task() does not end the run loop: run() returns only
\* once is_running has been cleared, the except block is followed by the
\* sleep, and unless the job is stopped task() is invoked again.
C20_FailureContained ==
    /\ [](\A j \in Jobs : job_pc[j] = "exited" => ~job_running[j])
    /\ [][\A j \in Jobs :
            job_pc[j] = "caught" /\ job_pc'[j] # "caught"
               => job_pc'[j] = "sleep"]_vars
    /\ \A j \in Jobs :
          (job_pc[j] = "caught") ~> (job_pc[j] = "task" \/ ~job_running[j])

\* Both jobs are inside task() again after an iteration that raised.
C20_Witness ==
    \A j \in Jobs : job_raised[j] /\ job_running[j] /\ job_pc[j] = "task"

\* C21: once stop() has been called the run loop exits, also when stop()
\* comes right after start(), and no task() begins once the loop has seen
\* is_running cleared: from the loop test it goes to the exit, from the test
\* before task() past task().
C21_CooperativeStop ==
    /\ \A j \in Jobs : job_stopped[j] ~> (job_pc[j] = "exited")
    /\ [][\A j \in Jobs :
            /\ job_pc[j] = "while" /\ job_pc'[j] # "while" /\ ~job_running[j]
                 => job_pc'[j] = "exited"
            /\ job_pc[j] = "guard" /\ job_pc'[j] # "guard" /\ ~job_running[j]
                 => job_pc'[j] # "task"]_vars

\* --------------------------------------------------- persistence properties
\* C22: within one run of task() the insert calls made so far are, one call
\* each and in order, the first devices of the snapshot whose temperature is
\* not None, whether the calls succeeded or failed; and task() returns only
\* after every such device has had its one call.
C22_OneInsertPerDevice ==
    /\ [](saver_pc = "save" =>
            /\ Len(save_log) = save_pos
            /\ Len(save_log) <= Len(ReadingsInOrder)
            /\ \A i \in 1..Len(save_log) :
                  /\ save_log[i].system = ReadingsInOrder[i][1]
                  /\ save_log[i].device = ReadingsInOrder[i][2])
    /\ [][saver_pc = "save" /\ saver_pc' = "idle" =>
             Len(save_log) = Len(ReadingsInOrder)]_vars

\* The insert for the first device failed and the insert for the second one
\* was made all the same.
C22_Witness ==
    /\ saver_pc = "save"
    /\ Len(save_log) = 2
    /\ ~save_log[1].success
    /\ save_log[2].success
    /\ save_log[1].device # save_log[2].device

\* ------------------------------------------------------- table properties
\* C23: the keys of the latest-value tables are those set up at startup;
\* messages overwrite entries and never create one.
C23_StaticKeys ==
    /\ DOMAIN latest_temperatures = {"dryer", "kedi", "boiler"}
    /\ DOMAIN latest_temperatures["dryer"] = {"dryer1", "dryer2", "dryer3"}
    /\ DOMAIN latest_temperatures["kedi"] = {"kedi1", "kedi2"}
    /\ DOMAIN latest_temperatures["boiler"] = {"boiler1", "boiler2"}
    /\ DOMAIN latest_humidity = {"humidity4"}
    /\ DOMAIN latest_pressure = {"kedi1", "kedi2"}
    /\ DOMAIN latest_water_level = {"boiler1", "boiler2"}

\* C24: every alert device starts in NORMAL; the alert table always has the
\* startup devices as its keys and NORMAL, HIGH or LOW as its values; and an
\* entry changes only in a delivery that feeds a temperature other than None
\* to the alert check of that same device.
C24_AlertTable ==
    /\ \A d \in AlertDevices : alert_status[d] = "NORMAL"
    /\ [](/\ DOMAIN alert_status = AlertDevices
          /\ \A d \in AlertDevices : alert_status[d] \in {"NORMAL", "HIGH", "LOW"})
    /\ [][\A d \in AlertDevices :
            alert_status'[d] # alert_status[d] => DeliveryStep /\ Feeds(msg', d)]_vars

\* A reading for kedi1 has just taken kedi1 to HIGH while dryer1 stays LOW.
C24_Witness ==
    /\ msg.topic = MQTT_TOPICS["kedi1"]
    /\ outcome = "processed"
    /\ alert_status["kedi1"] = "HIGH"
    /\ alert_status["dryer1"] = "LOW"
    /\ \A d \in AlertDevices \ {"kedi1", "dryer1"} : alert_status[d] = "NORMAL"

\* ---------------------------------------------------- last-write properties
\* C25: concurrent calls for the same device all return, and once all have
\* returned the store holds for that device the value carried by the call
\* that took the lock last.
C25_LastWriteWins ==
    /\ <>AllDone
    /\ [](AllDone =>
            /\ last_acquired \in Threads
            /\ latest_temperatures["dryer"]["dryer1"] = ThreadReading(last_acquired))

\* All calls have returned, the first call to start took the lock last, and
\* the value it carried differs from that of every other call.
C25_Witness ==
    /\ AllDone
    /\ last_acquired = 1
    /\ \A t \in Threads \ {1} : ThreadReading(t) # ThreadReading(1)
    /\ latest_temperatures["dryer"]["dryer1"] = ThreadReading(1)

\* ------------------------------------------------------ startup properties
\* A row of the database for the device d of system s.
HasRow(s, d) == \E row \in db_rows : row[1] = s /\ row[2] = d

\* C26: once run() is past start_background_tasks, every device whose latest
\* temperature is not None eventually has a persisted row, and no row is
\* ever persisted with a None temperature.
C26_SnapshotJobPersists ==
    /\ \A d \in AlertDevices :
         (/\ run_pc \notin {"connect", "start_worker", "start_tasks"}
          /\ latest_temperatures[SystemOf(d)][d] # None) ~> HasRow(SystemOf(d), d)
    /\ [](\A row \in db_rows : row[3] # None)

\* ------------------------------------------------------ decoder properties
\* C27: for the text payload of every delivery, _parse_payload returns a
\* float, a dict or None and the delivery does not end in an exception; a
\* float comes only from a number and is its value, a dict only from a
\* well-formed object and has its keys; every number yields a float; text
\* that is neither a number nor of the shape {...}, and text of the shape
\* {...} that is not a well-formed object, yield None.
C27_DecoderTotal ==
    (msg # NoMessage /\ msg.payload.utf8) =>
        LET payload == msg.payload
            parsed == _parse_payload(payload)
        IN /\ parsed.type \in {"float", "dict", "None"}
           /\ outcome \in {"decode_error"} \cup CallbackOutcomes
           /\ (outcome = "decode_error") <=> (parsed = ParsedNone)
           /\ parsed.type = "float" =>
                payload.form = "number" /\ parsed.value = payload.value
           /\ parsed.type = "dict" =>
                /\ payload.form = "object" /\ payload.valid
                /\ DOMAIN parsed.dict = DOMAIN payload.data
           /\ payload.form = "number" => parsed.type = "float"
           /\ payload.form = "word" => parsed = ParsedNone
           /\ (payload.form = "object" /\ ~payload.valid) => parsed = ParsedNone

\* A word has been dropped, right after another payload was dropped.
C27_Witness ==
    /\ msg.payload = Word
    /\ outcome = "decode_error"
    /\ previous_outcome = "decode_error"
    /\ delivered = 0

\* A value float() turns into a number.
Numeric(v) == v.kind \in {"float", "nan"}

\* The payload is a well-formed object that holds a non-numeric value under
\* a recognised key, and no value that makes float() overflow.
PartlyNumeric(payload) ==
    /\ payload.utf8 /\ payload.form = "object" /\ payload.valid
    /\ \E k \in DOMAIN payload.data \cap NumericKeys :
          payload.data[k] \in {JStr, JNull}
    /\ \A k \in DOMAIN payload.data : payload.data[k] # JBig

DelaySequence(i) == IF i >= 7 THEN 300 ELSE 5 * 2^(i - 1)

InLoop(pc) == pc \in {"while", "sleep", "connect", "wait", "exited"}

\* C29: in a run of the reconnect loop the delay is the term of 5, 10, 20,
\* 40, 80, 160, 300, 300, ... that follows as many terms as attempts have
\* ended without a connection, by exception or not; the delays slept are
\* that sequence from its start; the delay is never above 300 and never
\* goes down.
C29_BackoffBounds ==
    /\ [](InLoop(reconnect_pc) =>
            /\ retry_delay = DelaySequence(failed_attempts + 1)
            /\ retry_delay <= 300
            /\ \A i \in 1..Len(slept) : slept[i] = DelaySequence(i))
    /\ [][InLoop(reconnect_pc) /\ InLoop(reconnect_pc')
            => /\ retry_delay' >= retry_delay
               /\ failed_attempts' # failed_attempts
                    => retry_delay' = (IF retry_delay >= 160 THEN 300
                                       ELSE 2 * retry_delay)]_vars

\* A run has slept eight times; the last two delays are the ceiling.
C29_Witness ==
    /\ reconnect_pc = "sleep"
    /\ slept = <<5, 10, 20, 40, 80, 160, 300, 300>>
    /\ retry_delay = 300

\* ------------------------------------------------------- gating properties
\* C30: a delivery that takes a device into HIGH or LOW puts one message for
\* it on the Telegram queue if the hour h is 6 <= h < 17 and leaves that
\* queue alone at every other hour; whatever the hour, the alert table
\* afterwards is the old one with the state the thresholds assign to the
\* reading.
C30_GatedByHour ==
    [][\A d \in AlertDevices :
          TransitionInto(d) =>
             /\ (6 <= hour /\ hour < 17) =>
                   /\ Len(message_queue') = Len(message_queue) + 1
                   /\ SubSeq(message_queue', 1, Len(message_queue)) = message_queue
                   /\ message_queue'[Len(message_queue')].device = d
                   /\ message_queue'[Len(message_queue')].status = alert_status'[d]
             /\ ~(6 <= hour /\ hour < 17) => UNCHANGED message_queue
             /\ alert_status' =
                  [alert_status EXCEPT
                      ![d] = Classified(FedTemperature(msg'.payload))]]_vars

\* At hour 16 a delivery took dryer1 into LOW; its message is the last on
\* the Telegram queue, its notification the last on the dashboard queue.
C30_Witness ==
    /\ hour = 16
    /\ outcome = "processed"
    /\ alert_status["dryer1"] = "LOW"
    /\ message_queue # <<>>
    /\ message_queue[Len(message_queue)].status = "LOW"
    /\ message_queue[Len(message_queue)].time = 16
    /\ notification_queue # <<>>
    /\ notification_queue[Len(notification_queue)].status = "LOW"

\* ------------------------------------------------------ excursion properties
\* C31, for excursions above the ceiling: whenever a reading above
\* MAX_TEMP_ALERT of the tracked device is processed at an hour h with
\* 6 <= h < 17, a Telegram message has been put on the queue during the
\* excursion the reading belongs to, that reading included.
C31_ExcursionAlerted ==
    [][(/\ DeliveryStep
        /\ tracked # NoDevice
        /\ Feeds(msg', tracked)
        /\ Gt(FedTemperature(msg'.payload), MAX_TEMP_ALERT)
        /\ outcome' = "processed"
        /\ excursion'.readings >= 1
        /\ 6 <= hour /\ hour < 17)
       => excursion'.sent >= 1]_vars

\* C32: a delivery whose processing raises inside the coordinator leaves the
\* four latest-value tables and the alert table as they were.
C32_AllOrNothing ==
    [][(DeliveryStep /\ outcome' = "caught")
        => UNCHANGED <<storeVars, alert_status>>]_vars

\* C33: once concurrent calls for dryer1, all carrying a temperature other
\* than None, have returned, the alert state of dryer1 is the one the
\* thresholds assign to the temperature the store holds for it.
C33_StoreAndAlertAgree ==
    (/\ AllDone
     /\ \A t \in Threads : ThreadDevice(t) = "dryer1" /\ ThreadReading(t) # None)
    => alert_status["dryer1"] = Classified(latest_temperatures["dryer"]["dryer1"])

\* ----------------------------------------------------- snapshot properties
\* The snapshot in hand holds v for device d in its table `name`.
SnapshotHolds(name, d, v) ==
    d \in DOMAIN SnapshotEntry(name) /\ SnapshotEntry(name)[d] = v

\* C34: a snapshot holds the temperature of the kedi1 message exactly if it
\* holds its pressure, and the temperature of the boiler1 message exactly if
\* it holds its water level.
C34_AllFieldsOrNone ==
    snapshot # NoSnapshot =>
       /\ SnapshotHolds("kedi", "kedi1", F(1600))
            <=> SnapshotHolds("pressure", "kedi1", F(25))
       /\ SnapshotHolds("boiler", "boiler1", F(1300))
            <=> SnapshotHolds("water_level", "boiler1", F(50))

\* The persistence job waited for the lock while a call for kedi1 was between
\* its two assignments; its snapshot has both fields, and the call has not
\* returned yet.
C34_Witness ==
    /\ snapshot # NoSnapshot
    /\ SnapshotHolds("kedi", "kedi1", F(1600))
    /\ SnapshotHolds("pressure", "kedi1", F(25))
    /\ \E t \in Threads :
          /\ thread_msg[t].topic = MQTT_TOPICS["kedi1"]
          /\ thread_pc[t] \in {"check", "write", "telegram", "notify"}
          /\ t \notin snapshot_after

\* --------------------------------------------------- subscription properties
\* C35: a delivery on a subscribed topic has a route: if its payload decodes,
\* it is not dropped as not found.
C35_SubscribedIsRoutable ==
    [][(/\ DeliveryStep
        /\ msg'.topic \in subscribed_topics
        /\ Decodes(msg'.payload))
       => /\ _get_device_info_from_topic(msg'.topic) # NotFound
          /\ outcome' # "not_found"]_vars

\* ------------------------------------------------- resubscription properties
\* A step of _on_connect.
ConnackStep == connack' # connack

\* C36 as stated: an accepted connection (rc = 0) leaves every non-empty
\* configured topic subscribed on the current client and is_connected true;
\* a refused one adds no subscription and leaves a reconnect thread alive.
C36_RefusalAlwaysReconnects ==
    [][ConnackStep =>
        IF connack'.rc = 0
        THEN /\ subscribed' = {MQTT_TOPICS[d] : d \in {x \in DOMAIN MQTT_TOPICS : MQTT_TOPICS[x] # ""}}
             /\ is_connected'
        ELSE /\ subscribed' = subscribed
             /\ ~is_connected'
             /\ ThreadAlive']_vars

\* C36 amended: an accepted connection (rc = 0) leaves every non-empty
\* configured topic subscribed on the current client and is_connected true;
\* a refused one adds no subscription and, unless disconnect() has turned
\* reconnecting off, leaves a reconnect thread alive.
C36_Resubscribed ==
    [][ConnackStep =>
        IF connack'.rc = 0
        THEN /\ subscribed' = {MQTT_TOPICS[d] : d \in {x \in DOMAIN MQTT_TOPICS : MQTT_TOPICS[x] # ""}}
             /\ is_connected'
        ELSE /\ subscribed' = subscribed
             /\ ~is_connected'
             /\ should_reconnect' => ThreadAlive']_vars

\* The broker has accepted the connection of a client made by the
\* reconnect loop, after an earlier refusal.
C36_Witness ==
    /\ connack.rc = 0
    /\ is_connected
    /\ Len(slept) >= 1
    /\ failed_attempts >= 1
    /\ reconnect_pc = "exited"
    /\ subscribed = subscribed_topics

\* ------------------------------------------------------ shutdown properties
\* A reconnect thread is started.
ThreadStartStep == reconnect_pc' = "begin" /\ reconnect_pc # "begin"

\* C37: a reconnect thread is started only while no reconnect thread is
\* alive, and only while should_reconnect is still true.
C37_OneLoopNoneAfterDisconnect ==
    [][ThreadStartStep => ~ThreadAlive /\ should_reconnect]_vars

\* C38: once disconnect() has returned, the reconnect loop has terminated,
\* no client is made or connected, no client's network loop runs, and no
\* message is delivered to the coordinator.
C38_DisconnectIsFinal ==
    /\ [](disconnect_pc = "returned" => ~ThreadAlive /\ mqtt_client # "looping")
    /\ [][disconnect_pc = "returned" =>
            /\ ~DeliveryStep
            /\ mqtt_client' = mqtt_client
            /\ subscribed' = subscribed]_vars

\* ----------------------------------------------------- stuck-sensor check
\* MonitorDataTask.  The rows of one group's table in the last hour are an
\* input of each check; only the suhu column (row[3]) is read.  A value is
\* null or a real number held in thousandths of a degree.
MaxRows == 2

Real(m) == [kind |-> "real", milli |-> m]
Null == [kind |-> "null", milli |-> 0]

\* `systems` of task(), in its order.
systems == <<"dryer", "kedi", "boiler">>

\* 25.001, 25.004 and 25.006 degrees, and a null.
SuhuValues == {Real(25001), Real(25004), Real(25006), Null}

RowsOfLastHour == UNION {[1..n -> SuhuValues] : n \in 0..MaxRows}

\* Variant: the value is cut after two decimals.
Truncate2(m) == m \div 10

\* round(x, 2) in hundredths, for a value that is not halfway between two.
Round2(m) == IF m % 10 < 5 THEN m \div 10 ELSE m \div 10 + 1

\* set([round(row[3], 2) for row in rows if ... row[3] is not None])
unique_values(rows) ==
    {Round2(rows[i].milli) : i \in {j \in 1..Len(rows) : rows[j].kind # "null"}}

StuckMessage(system, hundredths) ==
    [type |-> "message", system |-> system, suhu |-> hundredths]

CheckFrame ==
    UNCHANGED <<storeVars, alert_status, data_lock, notification_queue, hour,
                callVars, observerVars, threadVars, saverVars, workerVars,
                jobVars, orderVars, runVars, reconnectVars, sessionVars>>

\* _check_system_error(system_type, since_time) with the rows the query
\* returns, called by task() for the next system of its loop.
_check_system_error(rows) ==
    LET system == systems[check_pc]
        unique == unique_values(rows)
        sends == /\ rows # <<>>
                 /\ Cardinality(unique) = 1
                 /\ ~is_error_notified[system]
    IN /\ sends => Len(message_queue) < MaxQueue
       /\ check_pc' = IF check_pc = Len(systems) THEN 1 ELSE check_pc + 1
       /\ last_check' = [system |-> system, rows |-> Len(rows),
                         stored |-> {rows[i].milli :
                                       i \in {j \in 1..Len(rows) : rows[j].kind # "null"}},
                         sent |-> sends, flip |-> ~last_check.flip]
       /\ IF rows = <<>>
          THEN UNCHANGED <<is_error_notified, message_queue, warned, varied_since>>
          ELSE IF Cardinality(unique) = 1
          THEN /\ IF ~is_error_notified[system]
                  THEN /\ message_queue' =
                            Append(message_queue,
                                   StuckMessage(system, CHOOSE u \in unique : TRUE))
                       /\ is_error_notified' = [is_error_notified EXCEPT ![system] = TRUE]
                       /\ warned' = [warned EXCEPT ![system] = TRUE]
                       /\ varied_since' = [varied_since EXCEPT ![system] = FALSE]
                  ELSE UNCHANGED <<message_queue, is_error_notified, warned, varied_since>>
          ELSE /\ is_error_notified' = [is_error_notified EXCEPT ![system] = FALSE]
               /\ varied_since' = [varied_since EXCEPT ![system] = TRUE]
               /\ UNCHANGED <<message_queue, warned>>
       /\ CheckFrame

CheckSystem == \E rows \in RowsOfLastHour : _check_system_error(rows)

NextChecks == CheckSystem \/ ProcessQueue

SpecChecks == InitService /\ [][NextChecks]_vars

\* --------------------------------------------------- stuck-sensor properties
\* A step that is one call of _check_system_error.
CheckStep == last_check' # last_check

\* The distinct values a check saw, to the nearest hundredth.
DistinctHundredths(stored) == {(m + 5) \div 10 : m \in stored}

\* The parts of C39 that do not depend on how values are told apart: a
\* warning needs no outstanding warning, a second warning for a group needs a
\* check in between that saw rows without a single value, and a check that
\* finds no rows sends nothing and leaves the flags alone.
OncePerEpisode ==
    LET s == last_check'.system
    IN /\ last_check'.sent => ~is_error_notified[s]
       /\ (last_check'.sent /\ warned[s]) => varied_since[s]
       /\ last_check'.rows = 0 =>
            ~last_check'.sent /\ is_error_notified' = is_error_notified

\* C39 as stated: a warning is sent only when the rows hold exactly one
\* distinct non-null value and none is outstanding, two warnings for a group
\* are separated by a check that saw another number of distinct values, and
\* a check without rows neither sends nor clears.
C39_OneStoredValue ==
    [][CheckStep =>
        /\ OncePerEpisode
        /\ last_check'.sent =>
             Cardinality(last_check'.stored) = 1]_vars

\* C39 amended: the same with values told apart after rounding to two
\* decimals.
C39_OncePerEpisode ==
    [][CheckStep =>
        /\ OncePerEpisode
        /\ last_check'.sent =>
             Cardinality(DistinctHundredths(last_check'.stored)) = 1]_vars

\* A warning for the dryer group has just been queued for rows whose two
\* stored values are the same to two decimals.
C39_Witness ==
    /\ last_check.system = "dryer"
    /\ last_check.sent
    /\ is_error_notified["dryer"]
    /\ message_queue # <<>>
    /\ message_queue[Len(message_queue)].type = "message"
    /\ message_queue[Len(message_queue)].system = "dryer"
    /\ Cardinality(last_check.stored) = 2

\* ------------------------------------------------------------ web sessions
\* One browser and its signed session cookie.  Time is counted in units of
\* eight hours, up to MaxClock.
MaxClock == 5

\* 24 * 60 * 60 seconds
max_session_duration == 3

\* timedelta(hours=24)
PERMANENT_SESSION_LIFETIME == 3

EmptySession == <<>>

\* The session without the given keys.
Without(s, keys) ==
    IF DOMAIN s \ keys = {}
    THEN EmptySession
    ELSE [k \in DOMAIN s \ keys |-> s[k]]

\* The session after session[k] = v for every key of the record r.
With(s, r) ==
    [k \in DOMAIN s \cup DOMAIN r |-> IF k \in DOMAIN r THEN r[k] ELSE s[k]]

ProtectedPages == {"index", "dwidaya", "kedi", "boiler"}

ProtectedApis == {"data", "chart_data", "stream_data", "download"}

Routes == ProtectedPages \cup ProtectedApis \cup {"logout", "keepalive"}

\* The decorators under @app.route of each view.
Decorators(route) ==
    CASE route \in ProtectedPages -> {"login_required", "check_session_timeout"}
      [] route \in ProtectedApis -> {"login_required"}
      [] route = "logout" -> {"login_required"}
      [] OTHER -> {}

\* The session a request starts with: the cookie's, unless there is no
\* cookie or its signature is older than the session lifetime.
OpenSession ==
    IF cookie_issued >= 0 /\ now - cookie_issued <= PERMANENT_SESSION_LIFETIME
    THEN session
    ELSE EmptySession

\* current_user.is_authenticated
IsAuthenticated(s) == "_user_id" \in DOMAIN s

\* logout_user()
logout_user(s) == Without(s, {"_user_id"})

\* check_session_timeout for an authenticated session: is the request turned
\* away?
SessionExpired(s) ==
    IF "login_timestamp" \in DOMAIN s
    THEN now - s["login_timestamp"] > max_session_duration
    ELSE TRUE

\* The response is saved: an emptied session deletes the cookie, a modified
\* or permanent one is signed again, any other leaves the cookie alone.
SaveSession(s, modified) ==
    IF DOMAIN s = {}
    THEN /\ session' = EmptySession
         /\ cookie_issued' = IF modified THEN -1 ELSE cookie_issued
    ELSE IF modified \/ "_permanent" \in DOMAIN s
    THEN session' = s /\ cookie_issued' = now
    ELSE UNCHANGED <<session, cookie_issued>>

WebFrame ==
    UNCHANGED <<storeVars, alert_status, data_lock, queueVars, hour, callVars,
                observerVars, threadVars, saverVars, workerVars, jobVars,
                orderVars, runVars, reconnectVars, checkVars>>

\* How a request to the route ends:
\*   "login_redirect"  login_required turned an anonymous request away
\*   "expired"         check_session_timeout logged the user out
\*   "handler"         the view function ran
Request(route) ==
    LET s == OpenSession
        turned_away == "login_required" \in Decorators(route) /\ ~IsAuthenticated(s)
        checked == /\ ~turned_away
                   /\ "check_session_timeout" \in Decorators(route)
                   /\ IsAuthenticated(s)
        expired == checked /\ SessionExpired(s)
    IN /\ last_request' =
            [route |-> route,
             ended |-> IF turned_away THEN "login_redirect"
                       ELSE IF expired THEN "expired" ELSE "handler",
             flip |-> ~last_request.flip]
       /\ IF turned_away
          THEN SaveSession(s, FALSE)
          ELSE IF expired
          THEN SaveSession([_flashes |-> 1], TRUE)
          ELSE IF route = "logout"
          THEN SaveSession(With(logout_user(s), [_flashes |-> 1]), TRUE)
          ELSE IF checked
          THEN SaveSession(With(s, [last_activity |-> now]), TRUE)
          ELSE SaveSession(s, FALSE)
       /\ UNCHANGED now
       /\ WebFrame

\* POST /login with the right password, by a browser that is not logged in.
Login ==
    /\ ~IsAuthenticated(OpenSession)
    /\ last_request' = [route |-> "login", ended |-> "handler",
                        flip |-> ~last_request.flip]
    /\ SaveSession(With(OpenSession,
                        [_user_id |-> 1, _permanent |-> 1, login_timestamp |-> now,
                         last_activity |-> now, username |-> 1, _flashes |-> 1]),
                   TRUE)
    /\ UNCHANGED now
    /\ WebFrame

\* Eight hours pass.
TickClock ==
    /\ now < MaxClock
    /\ now' = now + 1
    /\ UNCHANGED <<session, cookie_issued, last_request>>
    /\ WebFrame

NextWeb == Login \/ TickClock \/ \E route \in Routes : Request(route)

SpecWeb == InitService /\ [][NextWeb]_vars

\* -------------------------------------------------------- session properties
\* A step that is one request.
RequestStep == last_request' # last_request

\* C40: a request to a login-protected route by an authenticated session
\* that is older than 24 hours, or holds no login timestamp, never runs the
\* view function: the user is logged out, the session is cleared and the
\* request ends in the redirect to the login page.
C40_ExpiryOnEveryRoute ==
    [][(/\ RequestStep
        /\ last_request'.route \in ProtectedPages \cup ProtectedApis \cup {"logout"}
        /\ IsAuthenticated(OpenSession)
        /\ \/ "login_timestamp" \notin DOMAIN OpenSession
           \/ now - OpenSession["login_timestamp"] > 3)
       => /\ last_request'.ended = "expired"
          /\ ~IsAuthenticated(session')
          /\ "login_timestamp" \notin DOMAIN session']_vars

====
